---- MODULE Spec2Model ----
(***************************************************************************)
(* Entry normalization and cross-reference resolution of the               *)
(* nomad-training-resources plugin (schema_packages/schema_package.py),   *)
(* and the field mapping of its JSON-LD parser (parsers/jsonld_parser.py). *)
(*                                                                         *)
(* Data representation.                                                    *)
(*   - A Python str is a sequence of atoms.  An atom is either the single  *)
(*     whitespace character WS or a maximal run of other characters that   *)
(*     the code never splits ("Undefined", "https://", "youtu.be", ...).   *)
(*     The empty string is << >>.                                          *)
(*   - Python None, where a str is expected, is the value None below; it   *)
(*     is no string the model ever builds.                                 *)
(*   - A Python list of str is a sequence of strings (or None entries).    *)
(*     An absent list (None) is NoList.                                    *)
(***************************************************************************)
EXTENDS Integers, Sequences, FiniteSets, TLC

VARIABLES
    res,         \* the TrainingResource entry (archive.data): its quantities and mirrors
    relations,   \* res.relations: the entry's TrainingResourceRelation sub-sections
    archive,     \* the EntryArchive around the entry: context, metadata, results.eln
    searchLog,   \* the calls of nomad.search.search made by the last pass, with their answers
    lastOp,      \* the last operation on the entry: "init", "edit" or "normalize"
    values,      \* SpecEnum, SpecUrl: the raw list or string handed to a canonicalizer;
                 \* SpecParse: the JSON object the parser loaded (obj)
    result,      \* SpecEnum, SpecUrl: what the canonicalizer returned;
                 \* SpecParse: the entry the parser filled (tr)
    applied      \* SpecEnum, SpecUrl: which canonicalizer ran ("none" before any);
                 \* SpecParse: "parse" once the parser ran

entryVars == <<res, relations, archive, searchLog, lastOp>>
enumVars == <<values, result, applied>>
vars == <<res, relations, archive, searchLog, lastOp, values, result, applied>>

----------------------------------------------------------------------------
\* Bounds of the model.

\* longest raw value list drawn for the vocabulary canonicalizers
MaxLen == 3

\* most relations an entry carries
MaxRelations == 2

----------------------------------------------------------------------------
\* Python values.

WS == " "
None == <<"<None>">>
NoList == << <<"<None>", "<list>">> >>
Undefined == <<"Undefined">>

\* x in xs, for a Python list
InList(x, xs) == \E i \in 1..Len(xs) : xs[i] = x

\* [v for v in xs if v != x]
RECURSIVE Without(_, _)
Without(xs, x) ==
    IF xs = <<>> THEN <<>>
    ELSE IF Head(xs) = x THEN Without(Tail(xs), x)
         ELSE <<Head(xs)>> \o Without(Tail(xs), x)

\* str.strip(): leading and trailing whitespace removed
RECURSIVE lstrip(_)
lstrip(s) == IF s /= <<>> /\ Head(s) = WS THEN lstrip(Tail(s)) ELSE s

RECURSIVE rstrip(_)
rstrip(s) ==
    IF s /= <<>> /\ s[Len(s)] = WS THEN rstrip(SubSeq(s, 1, Len(s) - 1)) ELSE s

strip(s) == rstrip(lstrip(s))

----------------------------------------------------------------------------
\* Vocabulary canonicalizer.

\* the loop of _unique_clean over the remaining values, out being the list so far
RECURSIVE UniqueCleanLoop(_, _)
UniqueCleanLoop(vals, out) ==
    IF vals = <<>> THEN out
    ELSE LET v == Head(vals) IN
         IF v = None THEN UniqueCleanLoop(Tail(vals), out)
         ELSE LET w == strip(v) IN
              IF w = <<>> THEN UniqueCleanLoop(Tail(vals), out)
              ELSE IF InList(w, out) THEN UniqueCleanLoop(Tail(vals), out)
              ELSE UniqueCleanLoop(Tail(vals), Append(out, w))

_unique_clean(vals) == UniqueCleanLoop(IF vals = NoList THEN <<>> ELSE vals, <<>>)

\* _normalize_enum_list with the sentinel left beside concrete values
NormalizeEnumListKeepSentinel(vals) ==
    LET cleaned == _unique_clean(vals) IN
    IF cleaned = <<>> THEN <<Undefined>> ELSE cleaned

_normalize_enum_list(vals) ==
    LET cleaned == _unique_clean(vals) IN
    IF cleaned = <<>> THEN <<Undefined>>
    ELSE IF InList(Undefined, cleaned) /\ Len(cleaned) > 1
         THEN Without(cleaned, Undefined)
         ELSE cleaned

\* _normalize_enum_list_client defaulting the way the full policy does
NormalizeEnumListClientDefaulting(vals) ==
    LET cleaned == _unique_clean(vals) IN
    IF cleaned = <<>> THEN <<Undefined>>
    ELSE IF InList(Undefined, cleaned)
         THEN IF Len(cleaned) = 1 THEN <<>> ELSE Without(cleaned, Undefined)
         ELSE cleaned

\* _normalize_enum_list_client that leaves a lone sentinel in place
NormalizeEnumListClientKeepLone(vals) ==
    LET cleaned == _unique_clean(vals) IN
    IF InList(Undefined, cleaned) /\ Len(cleaned) > 1
    THEN Without(cleaned, Undefined)
    ELSE cleaned

_normalize_enum_list_client(vals) ==
    LET cleaned == _unique_clean(vals) IN
    IF cleaned = <<>> THEN <<>>
    ELSE IF InList(Undefined, cleaned)
         THEN IF Len(cleaned) = 1 THEN <<>> ELSE Without(cleaned, Undefined)
         ELSE cleaned

_normalize_free_list(vals) == _unique_clean(vals)

----------------------------------------------------------------------------
\* Identifier canonicalizer.
\*
\* URL atoms: the schemes "http://" and "https://", host labels ("www.",
\* "youtube.com", ...), the separators "/", "?", "&", "=", and path words,
\* query keys and ids, each one atom.

StartsWith(s, p) == Len(s) >= Len(p) /\ SubSeq(s, 1, Len(p)) = p

\* str.split(sep): the pieces between the separators, empty pieces kept
RECURSIVE SplitLoop(_, _, _, _)
SplitLoop(s, sep, cur, out) ==
    IF s = <<>> THEN Append(out, cur)
    ELSE IF Head(s) = sep THEN SplitLoop(Tail(s), sep, <<>>, Append(out, cur))
         ELSE SplitLoop(Tail(s), sep, Append(cur, Head(s)), out)

split(s, sep) == SplitLoop(s, sep, <<>>, <<>>)

\* [p for p in pieces if p]
RECURSIVE NonEmptyPieces(_)
NonEmptyPieces(ps) ==
    IF ps = <<>> THEN <<>>
    ELSE IF Head(ps) = <<>> THEN NonEmptyPieces(Tail(ps))
         ELSE <<Head(ps)>> \o NonEmptyPieces(Tail(ps))

\* str.strip("/")
RECURSIVE StripSlashes(_)
StripSlashes(s) ==
    IF s /= <<>> /\ Head(s) = "/" THEN StripSlashes(Tail(s))
    ELSE IF s /= <<>> /\ s[Len(s)] = "/" THEN StripSlashes(SubSeq(s, 1, Len(s) - 1))
         ELSE s

\* the first position of s holding an atom of stops, Len(s) + 1 when none does
RECURSIVE FirstStop(_, _, _)
FirstStop(s, stops, i) ==
    IF i > Len(s) THEN i
    ELSE IF s[i] \in stops THEN i ELSE FirstStop(s, stops, i + 1)

\* the atoms with upper-case letters that the model draws, each with its
\* lower-case form
LowerCased ==
    { <<"YouTube.com", "youtube.com">>,
      <<"Tutorial", "tutorial">>, <<"How", "how">>, <<"To", "to">>,
      <<"Explanation", "explanation">>, <<"Reference", "reference">>,
      <<"Undefined", "undefined">>, <<"Beginner", "beginner">>,
      <<"Intermediate", "intermediate">>, <<"Advanced", "advanced">>,
      <<"FAIRmat", "fairmat">>, <<"NOMAD", "nomad">>,
      <<"Documentation", "documentation">>, <<"Git", "git">>, <<"Repo", "repo">>,
      <<"Examples", "examples">>, <<"Self", "self">>, <<"Learning", "learning">>,
      <<"Video", "video">>, <<"File", "file">>, <<"Technical", "technical">>,
      <<"Article", "article">>, <<"Presentation", "presentation">>,
      <<"Document", "document">>, <<"Slides", "slides">>, <<"Software", "software">>,
      <<"Application", "application">>, <<"Source", "source">>, <<"Code", "code">>,
      <<"schema:VideoObject", "schema:videoobject">>,
      <<"CC0", "cc0">>, <<"CC", "cc">>, <<"BY", "by">>, <<"MIT", "mit">>,
      <<"License", "license">>, <<"Apache", "apache">>, <<"GNU", "gnu">>,
      <<"GPLv3", "gplv3">>, <<"GPL", "gpl">> }

\* str.lower() on one atom
LowerAtom(a) ==
    IF \E p \in LowerCased : p[1] = a
    THEN (CHOOSE p \in LowerCased : p[1] = a)[2]
    ELSE a

lower(s) == [i \in 1..Len(s) |-> LowerAtom(s[i])]

\* the query component of tail, the text from the first "?" or "#" on
QueryOf(tail) ==
    IF tail /= <<>> /\ Head(tail) = "?"
    THEN SubSeq(tail, 2, FirstStop(tail, {"#"}, 1) - 1)
    ELSE <<>>

\* the components of a URL whose network location is netloc, followed by
\* after, whose path ends before position qAt
UrlComponents(netloc, after, qAt) ==
    [ netloc |-> netloc,
      path   |-> SubSeq(after, 1, qAt - 1),
      query  |-> QueryOf(SubSeq(after, qAt, Len(after))) ]

\* the components of a URL whose text after the scheme is rest, the network
\* location ending before position pEnd
UrlAfterScheme(rest, pEnd) ==
    UrlComponents(SubSeq(rest, 1, pEnd - 1),
                  SubSeq(rest, pEnd, Len(rest)),
                  FirstStop(SubSeq(rest, pEnd, Len(rest)), {"?", "#"}, 1))

\* urlparse(s) of a string that starts with a scheme atom
urlparse(s) == UrlAfterScheme(Tail(s), FirstStop(Tail(s), {"/", "?", "#"}, 1))

\* parse_qs(query)[key][0], None when the key has no non-blank value
RECURSIVE FirstValue(_, _)
FirstValue(pairs, key) ==
    IF pairs = <<>> THEN None
    ELSE LET kv == split(Head(pairs), "=") IN
         IF Len(kv) >= 2 /\ kv[1] = <<key>> /\ SubSeq(Head(pairs), 3, Len(Head(pairs))) /= <<>>
         THEN SubSeq(Head(pairs), 3, Len(Head(pairs)))
         ELSE FirstValue(Tail(pairs), key)

QueryValue(query, key) == FirstValue(split(query, "&"), key)

\* (x or "").strip() or None
StripOrNone(x) == IF x = None \/ strip(x) = <<>> THEN None ELSE strip(x)

\* the atoms that are 11 characters of [A-Za-z0-9_-]
ValidVideoIds == {"dQw4w9WgXcQ", "abcdefghijk"}

\* _YOUTUBE_VIDEO_ID_RE.match(video_id)
MatchesVideoId(v) == Len(v) = 1 /\ v[1] \in ValidVideoIds

\* the host labels that contain the text "youtube.com"
YoutubeComLabels == {"youtube.com", "notyoutube.com"}

YoutubePrefixes ==
    { <<"youtu.be", "/">>, <<"www.", "youtube.com", "/">>, <<"youtube.com", "/">>,
      <<"m.", "youtube.com", "/">>, <<"music.", "youtube.com", "/">> }

VideoPathWords == { <<"shorts">>, <<"embed">>, <<"live">>, <<"v">> }

\* x if x is not None, else y
OrElse(x, y) == IF x /= None THEN x ELSE y

\* "youtube.com" in host or "youtu.be" in host
IsYoutubeHost(host) ==
    \E i \in 1..Len(host) : host[i] \in YoutubeComLabels \cup {"youtu.be"}

\* ShortLinkId that takes no id from the path of a youtu.be link
ShortLinkIdIgnored(path) == None

\* the first segment of the path of a youtu.be link
ShortLinkId(path) ==
    StripOrNone(IF StripSlashes(path) /= <<>>
                THEN split(StripSlashes(path), "/")[1] ELSE <<>>)

\* the id after a /shorts/, /embed/, /live/ or /v/ path word
PathWordId(parts) ==
    IF Len(parts) >= 2 /\ parts[1] \in VideoPathWords THEN StripOrNone(parts[2]) ELSE None

\* video_id before the pattern test: the v parameter, else the youtu.be
\* segment, else the id after a path word
RawVideoId(host, u) ==
    OrElse(OrElse(StripOrNone(QueryValue(u.query, "v")),
                  IF \E i \in 1..Len(host) : host[i] = "youtu.be"
                  THEN ShortLinkId(u.path) ELSE None),
           PathWordId(NonEmptyPieces(split(u.path, "/"))))

\* video_id after the pattern test
CheckedVideoId(v) == IF v /= None /\ ~MatchesVideoId(v) THEN None ELSE v

\* what _canonicalize_youtube_url returns for a host, video id and playlist id
CanonicalUrl(host, video_id, playlist_id) ==
    IF host = <<>> \/ ~IsYoutubeHost(host) THEN None
    ELSE IF video_id /= None
         THEN <<"https://", "www.", "youtube.com", "/", "watch", "?", "v", "=">> \o video_id
    ELSE IF playlist_id /= None
         THEN <<"https://", "www.", "youtube.com", "/", "playlist", "?", "list", "=">>
              \o playlist_id
    ELSE None

\* _canonicalize_youtube_url from the parsed URL on
CanonicalizeParsed(u) ==
    CanonicalUrl(lower(u.netloc),
                 CheckedVideoId(RawVideoId(lower(u.netloc), u)),
                 StripOrNone(QueryValue(u.query, "list")))

\* _canonicalize_youtube_url from the stripped, non-empty text on
CanonicalizeStripped(s) ==
    IF Head(s) \in {"http://", "https://"} \/ (\E p \in YoutubePrefixes : StartsWith(s, p))
    THEN CanonicalizeParsed(urlparse(IF Head(s) \in {"http://", "https://"}
                                     THEN s ELSE <<"https://">> \o s))
    ELSE None

_canonicalize_youtube_url(url) ==
    IF url = None \/ strip(url) = <<>> THEN None ELSE CanonicalizeStripped(strip(url))

\* _canonicalize_identifier from the stripped text on
CanonicalOrStripped(s) ==
    IF s = <<>> THEN s ELSE OrElse(_canonicalize_youtube_url(s), s)

_canonicalize_identifier(url) ==
    IF url = None THEN None ELSE CanonicalOrStripped(strip(url))

----------------------------------------------------------------------------
\* Relation resolver.

RELATION_STATUS ==
    << "manual_reference", "resolved_from_identifier", "identifier_not_found",
       "identifier_ambiguous", "identifier_missing", "skipped_client_context", "error" >>

\* resolution_status of a relation no pass has touched
NoStatus == "<None>"

\* a key a search hit does not carry
Missing == <<"<missing>">>

\* pagination.total being None
NoTotal == 0 - 1

\* str(x) inside an f-string
Fmt(x) == IF x = None THEN <<"None">> ELSE x

\* TrainingResourceRelation(): a relation as constructed
NewRelation ==
    [ relation_type      |-> None,
      target_resource    |-> None,
      target_identifier  |-> None,
      resolution_status  |-> NoStatus,
      resolution_message |-> None ]

\* hit.get(key)
HitGet(hit, key) == IF hit[key] = Missing THEN None ELSE hit[key]

\* the candidate lines of the ambiguous message, one per hit of result.data
RECURSIVE CandidateLines(_)
CandidateLines(data) ==
    IF data = <<>> THEN <<>>
    ELSE LET hit == Head(data)
             entry_id == HitGet(hit, "entry_id")
             n0 == HitGet(hit, "entry_name")
             entry_name == IF n0 = None \/ n0 = <<>> THEN HitGet(hit, "metadata_entry_name") ELSE n0
             label == IF entry_name = None \/ entry_name = <<>> THEN <<"<no entry_name>">> ELSE entry_name
         IN  << <<"- ">> \o Fmt(entry_id) \o <<": ">> \o label >> \o CandidateLines(Tail(data))

\* "\n".join(lines)
RECURSIVE JoinLines(_)
JoinLines(lines) ==
    IF lines = <<>> THEN <<>>
    ELSE IF Len(lines) = 1 THEN Head(lines)
         ELSE Head(lines) \o <<"\n">> \o JoinLines(Tail(lines))

\* the page size of the lookup
max_candidates == 20

\* the first page of data under MetadataPagination(page_size)
Page(data, page_size) ==
    SubSeq(data, 1, IF Len(data) < page_size THEN Len(data) ELSE page_size)

\* Search handing back every match whatever the page size
SearchUnpaged(backend, query) ==
    IF query \in DOMAIN backend THEN backend[query]
    ELSE [raises |-> None, total |-> 0, data |-> <<>>]

\* nomad.search.search(query, pagination): what the backend holds for the
\* query, its hits cut to the page of max_candidates the call asks for, and
\* no match for a query the backend holds nothing for
Search(backend, query) ==
    IF query \in DOMAIN backend
    THEN [backend[query] EXCEPT !.data = Page(@, max_candidates)]
    ELSE [raises |-> None, total |-> 0, data |-> <<>>]

\* the search call of a relation whose canonical target is target_id
SearchCall(target_id, arch, resp) ==
    [ query |-> target_id, owner |-> "visible", page_size |-> max_candidates,
      user_id |-> arch.user_id, response |-> resp ]

\* the reference written for a single match
ProxyValueSwapped(upload_id, entry_id) ==
    <<"../uploads/">> \o Fmt(entry_id) \o <<"/archive/">> \o Fmt(upload_id) \o <<"#/data">>

ProxyValue(upload_id, entry_id) ==
    <<"../uploads/">> \o Fmt(upload_id) \o <<"/archive/">> \o Fmt(entry_id) \o <<"#/data">>

\* ManualReference that forgets the status
ManualReferenceStale(rel) ==
    [rel EXCEPT !.resolution_message = <<"Target resource selected manually.">>]

\* the branch of a relation whose target_resource is set
ManualReference(rel) ==
    [rel EXCEPT !.resolution_status = "manual_reference",
                !.resolution_message = <<"Target resource selected manually.">>]

\* the branch of a relation without a usable identifier
IdentifierMissing(rel) ==
    [rel EXCEPT !.resolution_status = "identifier_missing",
                !.resolution_message =
                    <<"No target selected yet. Use the pen or paste an identifier URL and Save.">>]

\* the branch of a pass in a client context
SkippedClientContext(rel) ==
    [rel EXCEPT !.resolution_status = "skipped_client_context",
                !.resolution_message =
                    <<"Auto-resolution runs during server-side processing. Click Save and ",
                      "check the entry again after processing.">>]

\* NotFound reporting the status of the branch above it
NotFoundAsMissing(rel) ==
    [rel EXCEPT !.resolution_status = "identifier_missing",
                !.resolution_message =
                    <<"No TrainingResource found with that identifier URL. ",
                      "Either create the missing resource entry, or use the pen to select an entry.">>]

\* the branch of a lookup without a match
NotFound(rel) ==
    [rel EXCEPT !.resolution_status = "identifier_not_found",
                !.resolution_message =
                    <<"No TrainingResource found with that identifier URL. ",
                      "Either create the missing resource entry, or use the pen to select an entry.">>]

\* Ambiguous listing the first candidate only
AmbiguousFirstOnly(rel, total, data) ==
    LET lines == CandidateLines(IF data = <<>> THEN <<>> ELSE <<Head(data)>>)
        shown == Len(lines)
        suffix == IF total > shown
                  THEN <<" (showing ", ToString(shown), " of ", ToString(total), ")">>
                  ELSE <<>>
    IN  [rel EXCEPT !.resolution_status = "identifier_ambiguous",
                    !.resolution_message =
                        <<"Multiple TrainingResources found with that identifier URL. ",
                          "Please select the correct one with the pen.", "\nMatches">>
                        \o suffix \o <<":\n">> \o JoinLines(lines)]

\* the branch of a lookup with several matches
Ambiguous(rel, total, data) ==
    LET lines == CandidateLines(data)
        shown == Len(lines)
        suffix == IF total > shown
                  THEN <<" (showing ", ToString(shown), " of ", ToString(total), ")">>
                  ELSE <<>>
    IN  [rel EXCEPT !.resolution_status = "identifier_ambiguous",
                    !.resolution_message =
                        <<"Multiple TrainingResources found with that identifier URL. ",
                          "Please select the correct one with the pen.", "\nMatches">>
                        \o suffix \o <<":\n">> \o JoinLines(lines)]

\* the branch of a lookup with one match
Resolved(rel, upload_id, entry_id) ==
    [rel EXCEPT !.target_resource = ProxyValue(upload_id, entry_id),
                !.resolution_status = "resolved_from_identifier",
                !.resolution_message =
                    <<"Resolved identifier to TrainingResource entry_id=">>
                    \o Fmt(entry_id) \o <<".">>]

\* Failed with a message that drops the exception text
FailedWithoutDetail(rel, detail) ==
    [rel EXCEPT !.resolution_status = "error",
                !.resolution_message = <<"Resolution failed: ">>]

\* the except branch: an exception with text detail left the try block
Failed(rel, detail) ==
    [rel EXCEPT !.resolution_status = "error",
                !.resolution_message = <<"Resolution failed: ">> \o detail]

\* getattr(result.pagination, "total", 0) or 0
TotalOf(resp) == IF resp.total = NoTotal THEN 0 ELSE resp.total

\* the body of the try block once search() has returned resp, for relation rel
ClassifyResult(rel, resp) ==
    LET total == TotalOf(resp) IN
    IF total = 0 THEN NotFound(rel)
    ELSE IF total > 1 THEN Ambiguous(rel, total, resp.data)
    ELSE IF resp.data = <<>> THEN Failed(rel, <<"list index out of range">>)
    ELSE IF resp.data[1].upload_id = Missing THEN Failed(rel, <<"'upload_id'">>)
    ELSE IF resp.data[1].entry_id = Missing THEN Failed(rel, <<"'entry_id'">>)
    ELSE Resolved(rel, resp.data[1].upload_id, resp.data[1].entry_id)

\* TargetId that strips the identifier and leaves its spelling
TargetIdAsPasted(rel) ==
    IF rel.target_identifier = None THEN <<>> ELSE strip(rel.target_identifier)

\* _canonicalize_identifier(self.target_identifier) or ""
TargetId(rel) == OrElse(_canonicalize_identifier(rel.target_identifier), <<>>)

\* Lookup that keeps an identifier_not_found left by an earlier pass
LookupCached(rel, target_id, arch, resp) ==
    IF rel.resolution_status = "identifier_not_found"
    THEN [rel |-> rel, calls |-> <<>>]
    ELSE [ rel   |-> IF resp.raises /= None THEN Failed(rel, resp.raises)
                     ELSE ClassifyResult(rel, resp),
           calls |-> <<SearchCall(target_id, arch, resp)>> ]

\* the try block from the call of search() on, search() doing resp
Lookup(rel, target_id, arch, resp) ==
    [ rel   |-> IF resp.raises /= None THEN Failed(rel, resp.raises)
                ELSE ClassifyResult(rel, resp),
      calls |-> <<SearchCall(target_id, arch, resp)>> ]

\* ResolveTarget that tests the context before the identifier
ResolveTargetContextFirst(rel, target_id, arch, backend) ==
    IF rel.target_resource /= None THEN [rel |-> ManualReference(rel), calls |-> <<>>]
    ELSE IF arch.m_context = "client" THEN [rel |-> SkippedClientContext(rel), calls |-> <<>>]
    ELSE IF target_id = <<>> THEN [rel |-> IdentifierMissing(rel), calls |-> <<>>]
    ELSE IF ~arch.has_metadata THEN
        [ rel |-> Failed(rel, <<"'NoneType' object has no attribute 'main_author'">>),
          calls |-> <<>> ]
    ELSE Lookup(rel, target_id, arch, Search(backend, target_id))

\* ResolveTarget that looks a named target up again on every pass
ResolveTargetRefreshing(rel, target_id, arch, backend) ==
    IF target_id = <<>> THEN
        [ rel   |-> IF rel.target_resource /= None THEN ManualReference(rel)
                    ELSE IdentifierMissing(rel),
          calls |-> <<>> ]
    ELSE IF arch.m_context = "client" THEN [rel |-> SkippedClientContext(rel), calls |-> <<>>]
    ELSE IF ~arch.has_metadata THEN
        [ rel |-> Failed(rel, <<"'NoneType' object has no attribute 'main_author'">>),
          calls |-> <<>> ]
    ELSE Lookup(rel, target_id, arch, Search(backend, target_id))

\* TrainingResourceRelation.normalize once target_id is known
ResolveTarget(rel, target_id, arch, backend) ==
    IF rel.target_resource /= None THEN [rel |-> ManualReference(rel), calls |-> <<>>]
    ELSE IF target_id = <<>> THEN [rel |-> IdentifierMissing(rel), calls |-> <<>>]
    ELSE IF arch.m_context = "client" THEN [rel |-> SkippedClientContext(rel), calls |-> <<>>]
    ELSE IF ~arch.has_metadata THEN
        \* archive.metadata.main_author raises AttributeError before search() is called
        [ rel |-> Failed(rel, <<"'NoneType' object has no attribute 'main_author'">>),
          calls |-> <<>> ]
    ELSE Lookup(rel, target_id, arch, Search(backend, target_id))

\* TrainingResourceRelation.normalize: the relation after the pass, and the
\* search calls it made; backend maps each query to the answer of search()
\* (logger is a BoundLogger, as the signature says: its calls change no state)
RelationNormalize(rel, arch, backend) == ResolveTarget(rel, TargetId(rel), arch, backend)

----------------------------------------------------------------------------
\* Entry normalizer.

Fields ==
    { "instructional_method", "educational_level", "learning_resource_type",
      "format", "license", "subject" }

MirrorFields == Fields \cup {"keyword"}

\* TrainingResource(): an entry as constructed
NewEntry ==
    [ entry_name  |-> None,
      identifier  |-> None,
      title       |-> None,
      description |-> None,
      tags        |-> NoList,
      keyword     |-> NoList,
      vocab       |-> [f \in Fields |-> NoList],
      terms       |-> [f \in MirrorFields |-> <<>>],
      message     |-> None ]

\* bool(x) of an optional str
Truthy(x) == x /= None /\ x /= <<>>

\* ReplaceUnderscores that leaves the underscores in
KeepUnderscores(s) == s

\* str.replace("_", " ")
ReplaceUnderscores(s) == [i \in 1..Len(s) |-> IF s[i] = "_" THEN WS ELSE s[i]]

\* [Term(value=v) for v in _unique_clean(field)]
TermsOf(field) ==
    LET vs == _unique_clean(field) IN [i \in 1..Len(vs) |-> [value |-> vs[i]]]

\* _sync_terms that adds the new records to the mirror it finds
SyncTermsAppending(r) ==
    [r EXCEPT !.terms = [f \in MirrorFields |->
                            r.terms[f] \o (IF f = "keyword" THEN TermsOf(r.keyword)
                                           ELSE TermsOf(r.vocab[f]))]]

_sync_terms(r) ==
    [r EXCEPT !.terms = [f \in MirrorFields |->
                            IF f = "keyword" THEN TermsOf(r.keyword) ELSE TermsOf(r.vocab[f])]]

\* the entry and the archive after _sync_entry_name
_sync_entry_name(r, arch) ==
    IF ~arch.has_metadata \/ ~arch.data_is_self THEN [res |-> r, archive |-> arch]
    ELSE IF Truthy(r.entry_name)
         THEN [res |-> r, archive |-> [arch EXCEPT !.entry_name = r.entry_name]]
    ELSE IF r.entry_name = None /\ Truthy(arch.entry_name)
         THEN [res |-> [r EXCEPT !.entry_name =
                                    ReplaceUnderscores(split(arch.entry_name, ".")[1])],
               archive |-> arch]
    ELSE [res |-> r, archive |-> arch]

\* isinstance(x, str) and x.strip()
NonBlank(x) == x /= None /\ strip(x) /= <<>>

\* _has_meaningful_content_for_defaulting that does not look at the relations
HasMeaningfulContentWithoutRelations(r, rels) ==
    \/ NonBlank(r.identifier)
    \/ NonBlank(r.entry_name)
    \/ NonBlank(r.title)
    \/ NonBlank(r.description)
    \/ _unique_clean(r.keyword) /= <<>>
    \/ _unique_clean(r.tags) /= <<>>

_has_meaningful_content_for_defaulting(r, rels) ==
    \/ NonBlank(r.identifier)
    \/ NonBlank(r.entry_name)
    \/ NonBlank(r.title)
    \/ NonBlank(r.description)
    \/ _unique_clean(r.keyword) /= <<>>
    \/ _unique_clean(r.tags) /= <<>>
    \/ rels /= <<>>

\* MergeTags that puts the tags of the entry in place of the index
MergeTagsReplacing(existing, tags) == tags

\* existing extended by the tags it does not hold yet, in their order
RECURSIVE MergeTags(_, _)
MergeTags(existing, tags) ==
    IF tags = <<>> THEN existing
    ELSE IF InList(Head(tags), existing) THEN MergeTags(existing, Tail(tags))
         ELSE MergeTags(Append(existing, Head(tags)), Tail(tags))

\* the concatenation of the calls of each relation, in relation order
RECURSIVE AllCalls(_)
AllCalls(outs) == IF outs = <<>> THEN <<>> ELSE Head(outs).calls \o AllCalls(Tail(outs))

\* self.identifier = _canonicalize_identifier(self.identifier)
CanonicalIdentifier(r) == [r EXCEPT !.identifier = _canonicalize_identifier(@)]

\* self.tags = _unique_clean(self.tags)
CleanTags(r) == [r EXCEPT !.tags = _unique_clean(@)]

\* IndexTags without the test of self.tags: the layer is made and the index
\* rewritten on every pass
IndexTagsAlways(arch, tags) ==
    [arch EXCEPT !.has_results = TRUE,
                 !.has_eln = TRUE,
                 !.eln_tags = MergeTags(_unique_clean(@), tags)]

\* the archive after the tags of the entry were merged into results.eln.tags
IndexTags(arch, tags) ==
    IF tags /= <<>>
    THEN [arch EXCEPT !.has_results = TRUE,
                      !.has_eln = TRUE,
                      !.eln_tags = MergeTags(_unique_clean(@), tags)]
    ELSE arch

\* the six vocabulary fields under the policy fill_defaults selects
NormalizeVocabulary(r, fill_defaults) ==
    [r EXCEPT !.vocab = [f \in Fields |->
                            IF fill_defaults THEN _normalize_enum_list(r.vocab[f])
                            ELSE _normalize_enum_list_client(r.vocab[f])]]

\* fill_defaults, and the vocabulary fields normalized under it
NormalizeVocabularyIn(r, rels, arch) ==
    NormalizeVocabulary(r, arch.m_context /= "client"
                           /\ _has_meaningful_content_for_defaulting(r, rels))

\* self.keyword = _normalize_free_list(self.keyword)
NormalizeKeyword(r) == [r EXCEPT !.keyword = _normalize_free_list(@)]

\* self.message = f"Indexed {len(self.keyword_terms)} keywords."
SetMessage(r) ==
    [r EXCEPT !.message = <<"Indexed ", ToString(Len(r.terms["keyword"])), " keywords.">>]

\* the entry's own quantities after the pass, r being the entry after
\* _sync_entry_name
NormalizeQuantities(r, rels, arch) ==
    SetMessage(_sync_terms(NormalizeKeyword(
        NormalizeVocabularyIn(CleanTags(CanonicalIdentifier(r)), rels, arch))))

\* the relation loop with the try around the loop instead of inside it: the
\* first relation whose resolution failed ends the loop
NormalizeRelationsAborting(rels, arch, backend) ==
    [i \in 1..Len(rels) |->
        IF \E j \in 1..(i - 1) :
              RelationNormalize(rels[j], arch, backend).rel.resolution_status = "error"
        THEN [rel |-> rels[i], calls |-> <<>>]
        ELSE RelationNormalize(rels[i], arch, backend)]

\* for rel in self.relations: rel.normalize(archive, logger), failures logged
NormalizeRelations(rels, arch, backend) ==
    [i \in 1..Len(rels) |-> RelationNormalize(rels[i], arch, backend)]

\* the entry, its relations, the archive and the search calls after the pass
PassOutcome(r, outs, arch) ==
    [ res       |-> r,
      relations |-> [i \in 1..Len(outs) |-> outs[i].rel],
      archive   |-> arch,
      calls     |-> AllCalls(outs) ]

\* the archive the relation loop sees: arch with the tags of r indexed
ArchiveWithTags(r, arch) == IndexTags(arch, _unique_clean(r.tags))

\* TrainingResource.normalize after _sync_entry_name has left entry and archive named
NormalizeNamed(named, rels, backend) ==
    PassOutcome(NormalizeQuantities(named.res, rels, named.archive),
                NormalizeRelations(rels, ArchiveWithTags(named.res, named.archive), backend),
                ArchiveWithTags(named.res, named.archive))

\* TrainingResource.normalize on entry r with relations rels in archive arch,
\* the search backend answering as backend does
TrainingResourceNormalize(r, rels, arch, backend) ==
    NormalizeNamed(_sync_entry_name(r, arch), rels, backend)

----------------------------------------------------------------------------
\* Spec: an entry, its relations edited by the user, and normalization passes.

Contexts == {"client", "server"}

VideoId == "dQw4w9WgXcQ"
TargetCom == <<"http://", "target.com">>
ShortVideo == <<"youtu.be", "/", VideoId>>

\* what a user leaves in target_identifier
TargetIdentifiers == { None, TargetCom, ShortVideo }

\* a reference picked with the pen
ManualRef == <<"../uploads/", "upload9", "/archive/", "entry9", "#/data">>

Hit(entry_id, upload_id, entry_name, metadata_entry_name) ==
    [ entry_id |-> entry_id, upload_id |-> upload_id, entry_name |-> entry_name,
      metadata_entry_name |-> metadata_entry_name ]

Hit1 == Hit(<<"entry1">>, <<"upload1">>, <<"A">>, Missing)
Hit2 == Hit(<<"entry2">>, <<"upload2">>, Missing, <<"B">>)
Hit3 == Hit(<<"entry3">>, Missing, Missing, Missing)

Answer(total, data) == [raises |-> None, total |-> total, data |-> data]

\* what search() can do: fail, or answer with a total and a page of hits
Responses ==
    { [raises |-> <<"backend down">>, total |-> 0, data |-> <<>>],
      Answer(0, <<>>),
      Answer(1, <<Hit1>>),
      Answer(2, <<Hit1, Hit2>>) }

\* the identifiers the relations rels name, as the backend indexes them
NamedIds(rels) ==
    { _canonicalize_identifier(rels[i].target_identifier) : i \in 1..Len(rels) }
        \ { None, <<>> }

\* the backends a pass in context c can meet: one answer for each identifier
\* the entry names (a client context has no backend to ask)
Backends(c, rels) == [ (IF c = "client" THEN {} ELSE NamedIds(rels)) -> Responses ]

InitEnumIdle ==
    /\ values = NoList
    /\ result = NoList
    /\ applied = "none"

Init ==
    /\ res = NewEntry
    /\ relations = <<>>
    /\ archive = [ m_context    |-> "server",
                   has_metadata |-> TRUE,
                   entry_name   |-> None,
                   user_id      |-> <<"user1">>,
                   data_is_self |-> TRUE,
                   has_results  |-> FALSE,
                   has_eln      |-> FALSE,
                   eln_tags     |-> NoList ]
    /\ searchLog = <<>>
    /\ lastOp = "init"
    /\ InitEnumIdle

\* the user adds a relation, with or without an identifier to resolve
AddRelation(t) ==
    /\ Len(relations) < MaxRelations
    /\ relations' = Append(relations, [NewRelation EXCEPT !.target_identifier = t])
    /\ lastOp' = "edit"
    /\ UNCHANGED <<res, archive, searchLog, enumVars>>

\* the user picks the target of relation i with the pen
PickTarget(i) ==
    /\ relations[i].target_resource = None
    /\ relations' = [relations EXCEPT ![i].target_resource = ManualRef]
    /\ lastOp' = "edit"
    /\ UNCHANGED <<res, archive, searchLog, enumVars>>

\* the entry as a pass leaves it becomes the stored entry
Store(out) ==
    /\ res' = out.res
    /\ relations' = out.relations
    /\ archive' = out.archive
    /\ searchLog' = out.calls
    /\ lastOp' = "normalize"

\* one normalization pass, run by the host in context c against backend
Normalize(c, backend) ==
    /\ Store(TrainingResourceNormalize(res, relations, [archive EXCEPT !.m_context = c], backend))
    /\ UNCHANGED enumVars

Next ==
    \/ \E t \in TargetIdentifiers : AddRelation(t)
    \/ \E i \in 1..Len(relations) : PickTarget(i)
    \/ \E c \in Contexts : \E backend \in Backends(c, relations) : Normalize(c, backend)

Spec == Init /\ [][Next]_vars

----------------------------------------------------------------------------
\* SpecRel: one relation, edited by the user and resolved on its own
\* (TrainingResourceRelation.normalize), against every answer of the backend.

\* what a user leaves in target_identifier, blank and padded spellings included
WideTargetIdentifiers ==
    { None, <<>>, <<WS>>, TargetCom, <<WS>> \o TargetCom \o <<WS>>, ShortVideo }

\* n matches of one identifier, every second one without a name of its own
ManyHits(n) ==
    [ k \in 1..n |-> Hit(<<"entry", ToString(k)>>, <<"upload1">>,
                         IF k % 2 = 1 THEN <<"A">> ELSE Missing,
                         IF k % 3 = 0 THEN <<"B">> ELSE Missing) ]

\* every answer of search(), malformed and truncated pages included
WideResponses ==
    Responses \cup
    { Answer(NoTotal, <<>>),
      Answer(1, <<>>),
      Answer(1, <<Hit3>>),
      Answer(1, <<Hit(Missing, <<"upload1">>, Missing, Missing)>>),
      Answer(2, <<>>),
      Answer(3, <<Hit3, Hit2>>),
      Answer(max_candidates + 5, ManyHits(max_candidates + 5)) }

\* what a user leaves in relation_type: nothing, or a member of RELATION_TYPES
RelationTypes == { None, <<"sameAs">>, <<"isPartOf">> }

InitRel ==
    /\ res = NewEntry
    /\ \E t \in WideTargetIdentifiers, ref \in {None, ManualRef}, ty \in RelationTypes :
          relations = << [NewRelation EXCEPT !.relation_type = ty,
                                             !.target_identifier = t,
                                             !.target_resource = ref] >>
    /\ \E m \in BOOLEAN :
          archive = [ m_context    |-> "server",
                      has_metadata |-> m,
                      entry_name   |-> None,
                      user_id      |-> IF m THEN <<"user1">> ELSE None,
                      data_is_self |-> TRUE,
                      has_results  |-> FALSE,
                      has_eln      |-> FALSE,
                      eln_tags     |-> NoList ]
    /\ searchLog = <<>>
    /\ lastOp = "init"
    /\ InitEnumIdle

\* the user pastes or clears the identifier of relation i
SetTargetIdentifier(i, t) ==
    /\ relations[i].target_identifier /= t
    /\ relations' = [relations EXCEPT ![i].target_identifier = t]
    /\ lastOp' = "edit"
    /\ UNCHANGED <<res, archive, searchLog, enumVars>>

\* the user clears the target of relation i
ClearTarget(i) ==
    /\ relations[i].target_resource /= None
    /\ relations' = [relations EXCEPT ![i].target_resource = None]
    /\ lastOp' = "edit"
    /\ UNCHANGED <<res, archive, searchLog, enumVars>>

\* relation i as its pass leaves it becomes the stored relation
StoreRelation(i, out) ==
    /\ relations' = [relations EXCEPT ![i] = out.rel]
    /\ searchLog' = out.calls
    /\ lastOp' = "normalize"

\* relation i normalized on its own in context c, search() answering resp
RelationPass(i, c, resp) ==
    /\ StoreRelation(i, RelationNormalize(relations[i], [archive EXCEPT !.m_context = c],
                                          [q \in NamedIds(relations) |-> resp]))
    /\ archive' = [archive EXCEPT !.m_context = c]
    /\ UNCHANGED <<res, enumVars>>

NextRel ==
    \/ \E t \in WideTargetIdentifiers : SetTargetIdentifier(1, t)
    \/ PickTarget(1)
    \/ ClearTarget(1)
    \/ \E c \in Contexts, resp \in WideResponses : RelationPass(1, c, resp)

SpecRel == InitRel /\ [][NextRel]_vars

----------------------------------------------------------------------------
\* SpecEnum: the vocabulary canonicalizers applied to every bounded raw list.

EnumValues ==
    { None, <<>>, <<WS>>, <<"A">>, <<"B">>, <<WS, "A", WS>>,
      Undefined, <<"undefined">>, <<"UNDEFINED">> }

SeqsUpTo(S, n) == UNION { [1..k -> S] : k \in 0..n }

\* the list of the de-duplication example: ["B","A","B","undefined","A"]
ExampleValues == << <<"B">>, <<"A">>, <<"B">>, <<"undefined">>, <<"A">> >>

EnumInputs == SeqsUpTo(EnumValues, MaxLen) \cup {NoList, ExampleValues}

InitEntryIdle ==
    /\ res = NewEntry
    /\ relations = <<>>
    /\ archive = [ m_context    |-> "server",
                   has_metadata |-> FALSE,
                   entry_name   |-> None,
                   user_id      |-> None,
                   data_is_self |-> TRUE,
                   has_results  |-> FALSE,
                   has_eln      |-> FALSE,
                   eln_tags     |-> NoList ]
    /\ searchLog = <<>>
    /\ lastOp = "init"

InitEnum ==
    /\ InitEntryIdle
    /\ values \in EnumInputs
    /\ result = NoList
    /\ applied = "none"

ApplyEnumList ==
    /\ applied = "none"
    /\ applied' = "full"
    /\ result' = _normalize_enum_list(values)
    /\ UNCHANGED <<values, entryVars>>

ApplyEnumListClient ==
    /\ applied = "none"
    /\ applied' = "client"
    /\ result' = _normalize_enum_list_client(values)
    /\ UNCHANGED <<values, entryVars>>

ApplyFreeList ==
    /\ applied = "none"
    /\ applied' = "free"
    /\ result' = _normalize_free_list(values)
    /\ UNCHANGED <<values, entryVars>>

NextEnum == ApplyEnumList \/ ApplyEnumListClient \/ ApplyFreeList

SpecEnum == InitEnum /\ [][NextEnum]_vars

----------------------------------------------------------------------------
\* SpecUrl: the identifier canonicalizers applied to every bounded spelling.

Schemes == { <<>>, <<"http://">>, <<"https://">> }

\* the hosts of the video-hosting family
FamilyHosts ==
    { <<"youtube.com">>, <<"www.", "youtube.com">>, <<"m.", "youtube.com">>,
      <<"music.", "youtube.com">> }

\* hosts outside the family, one of them with "youtube.com" inside its name
OtherHosts == { <<"target.com">>, <<"notyoutube.com">> }

\* the path-and-query forms that carry the video id x on a youtube.com host
VideoPaths(x) ==
    { <<"/", "watch", "?", "v", "=", x>>,
      <<"/", "watch", "?", "t", "=", "10", "&", "v", "=", x>>,
      <<"/", "shorts", "/", x>>, <<"/", "embed", "/", x>>,
      <<"/", "live", "/", x>>, <<"/", "v", "/", x, "/">> }

\* the spellings of the video with id x
VideoSpellings(x) ==
    { s \o h \o p : s \in Schemes, h \in FamilyHosts, p \in VideoPaths(x) }
    \cup { s \o <<"youtu.be", "/", x>> : s \in Schemes }
    \cup { <<"https://", "YouTube.com", "/", "watch", "?", "v", "=", x>> }

\* an id the pattern rejects
BadVideoId == "short"

\* family URLs that carry neither a valid video id nor a playlist id
UnresolvedFamilyUrls ==
    { s \o h \o p : s \in Schemes, h \in FamilyHosts,
                    p \in VideoPaths(BadVideoId) \cup { <<>>, <<"/", "about">> } }
    \cup { s \o <<"youtu.be", "/", BadVideoId>> : s \in Schemes }
    \cup { s \o <<"youtu.be", "/", "shorts", "/", VideoId>> : s \in Schemes }

\* family URLs that carry a playlist id and no video id
PlaylistUrls ==
    { s \o h \o <<"/", "playlist", "?", "list", "=", "PL1">> : s \in Schemes, h \in FamilyHosts }

\* strings that are no URL of the family
OtherUrls ==
    { s \o h \o p : s \in Schemes, h \in OtherHosts,
                    p \in VideoPaths(VideoId) \cup { <<>>, <<"/", "about">> } }
    \cup { <<"doi:", "10.1000/1">> }

\* None, the blank strings, and every spelling bare or padded with whitespace
UrlInputs ==
    { None, <<>>, <<WS>>, <<WS, WS>> }
    \cup VideoSpellings(VideoId) \cup VideoSpellings("abcdefghijk")
    \cup UnresolvedFamilyUrls \cup PlaylistUrls \cup OtherUrls
    \cup { <<WS>> \o u \o <<WS>> : u \in { ShortVideo, TargetCom } }

InitUrl ==
    /\ InitEntryIdle
    /\ values \in UrlInputs
    /\ result = None
    /\ applied = "none"

\* _canonicalize_identifier(values)
ApplyCanonicalizeIdentifier ==
    /\ applied = "none"
    /\ applied' = "identifier"
    /\ result' = _canonicalize_identifier(values)
    /\ UNCHANGED <<values, entryVars>>

\* _canonicalize_youtube_url(values)
ApplyCanonicalizeYoutubeUrl ==
    /\ applied = "none"
    /\ applied' = "youtube"
    /\ result' = _canonicalize_youtube_url(values)
    /\ UNCHANGED <<values, entryVars>>

\* the stored identifier goes through _canonicalize_identifier once more
ApplyCanonicalizeAgain ==
    /\ applied = "identifier"
    /\ applied' = "again"
    /\ values' = result
    /\ result' = _canonicalize_identifier(result)
    /\ UNCHANGED entryVars

NextUrl ==
    \/ ApplyCanonicalizeIdentifier
    \/ ApplyCanonicalizeYoutubeUrl
    \/ ApplyCanonicalizeAgain

SpecUrl == InitUrl /\ [][NextUrl]_vars

----------------------------------------------------------------------------
\* SpecEntry: entries with content of every kind, edited by the user and
\* normalized in either context.

\* the archive of an entry under processing, before any pass
HostArchive ==
    [ m_context    |-> "server",
      has_metadata |-> TRUE,
      entry_name   |-> None,
      user_id      |-> <<"user1">>,
      data_is_self |-> TRUE,
      has_results  |-> FALSE,
      has_eln      |-> FALSE,
      eln_tags     |-> NoList ]

\* an archive without metadata
BareArchive == [HostArchive EXCEPT !.has_metadata = FALSE, !.user_id = None]

Scenario(r, rels, arch) == [res |-> r, relations |-> rels, archive |-> arch]

\* the names the host gives an entry: one suffix, and two
HostNames ==
    { <<"my", "_", "custom", "_", "name", ".", "suffix">>,
      <<"my", "_", "file", ".", "archive", ".", "json">> }

\* display names of an entry: unset, empty, set
EntryNames == { None, <<>>, <<"My", WS, "Name">> }

\* raw lists of a vocabulary field, the same for the six fields
VocabLists == { NoList, << <<"A">> >>, << Undefined, <<"A">> >>, << Undefined >> }

\* raw keyword lists
KeywordLists == { NoList, << <<"k1">>, <<WS, "k2", WS>>, <<"k1">> >>, << None, <<WS>> >> }

\* raw tag lists
TagLists == { NoList, << <<"t1">> >>, << <<"t2">>, <<"t1">>, <<"t2">> >> }

\* mirror lists left by an earlier pass
StaleTerms == { [f \in MirrorFields |-> <<>>], [f \in MirrorFields |-> <<[value |-> <<"old">>]>>] }

\* a relation that names its target by identifier t
RelationTo(t) == [NewRelation EXCEPT !.target_identifier = t]

\* entries that differ in display name, under archives that differ in metadata
NameScenarios ==
    { Scenario([NewEntry EXCEPT !.entry_name = n, !.vocab = [f \in Fields |-> v]], <<>>, a) :
        n \in EntryNames, v \in { NoList, << <<"A">> >> },
        a \in { BareArchive, HostArchive }
              \cup { [HostArchive EXCEPT !.entry_name = h] : h \in HostNames }
              \cup { [HostArchive EXCEPT !.entry_name = h, !.data_is_self = FALSE] :
                       h \in HostNames } }

\* entries with no content, or with content of one kind
ContentProfiles ==
    { NewEntry,
      [NewEntry EXCEPT !.identifier = TargetCom],
      [NewEntry EXCEPT !.identifier = <<WS>>],
      [NewEntry EXCEPT !.title = <<"T">>],
      [NewEntry EXCEPT !.title = <<WS>>],
      [NewEntry EXCEPT !.description = <<"D">>] }

\* entries that differ in what content they have and in their vocabulary
PolicyScenarios ==
    { Scenario([r EXCEPT !.keyword = k, !.tags = g, !.vocab = [f \in Fields |-> v]],
               rels, HostArchive) :
        r \in ContentProfiles, k \in KeywordLists, g \in { NoList, << <<"t1">> >> },
        v \in VocabLists, rels \in { <<>>, <<RelationTo(TargetCom)>> } }

\* what the host's annotation layer holds before a pass
TaggedArchives ==
    { HostArchive,
      [HostArchive EXCEPT !.has_results = TRUE],
      [HostArchive EXCEPT !.has_results = TRUE, !.has_eln = TRUE],
      [HostArchive EXCEPT !.has_results = TRUE, !.has_eln = TRUE,
                          !.eln_tags = << <<"t1">> >>],
      [HostArchive EXCEPT !.has_results = TRUE, !.has_eln = TRUE,
                          !.eln_tags = << <<"t3">>, <<WS, "t1">>, <<"t3">> >>] }

\* entries with tags, under archives with and without a side tag index
TagScenarios ==
    { Scenario([NewEntry EXCEPT !.tags = g], <<>>, a) : g \in TagLists, a \in TaggedArchives }

\* entries whose mirrors an earlier pass has filled
MirrorScenarios ==
    { Scenario([NewEntry EXCEPT !.keyword = k, !.vocab = [f \in Fields |-> v], !.terms = m],
               <<>>, HostArchive) :
        k \in KeywordLists, v \in VocabLists, m \in StaleTerms }

\* a spelling of the video the short link names
MobileShorts == <<"http://", "m.", "youtube.com", "/", "shorts", "/", VideoId>>

\* entries with an identifier and a relation that names a target by identifier
IdentifierScenarios ==
    { Scenario([NewEntry EXCEPT !.identifier = a], <<RelationTo(b)>>, HostArchive) :
        a \in { None, TargetCom, ShortVideo, <<WS>> \o ShortVideo },
        b \in { TargetCom, <<WS>> \o TargetCom \o <<WS>>, MobileShorts } }

EntryScenarios ==
    NameScenarios \cup PolicyScenarios \cup TagScenarios \cup MirrorScenarios
    \cup IdentifierScenarios

InitEntry ==
    /\ \E s \in EntryScenarios :
          /\ res = s.res
          /\ relations = s.relations
          /\ archive = s.archive
    /\ searchLog = <<>>
    /\ lastOp = "init"
    /\ InitEnumIdle

\* Edits of SpecEntry: one edit of the processed entry, then the save runs a pass.

\* the user removes the first keyword
DropKeyword ==
    /\ lastOp = "normalize"
    /\ res.keyword /= NoList
    /\ res.keyword /= <<>>
    /\ res' = [res EXCEPT !.keyword = Tail(@)]
    /\ lastOp' = "edit"
    /\ UNCHANGED <<relations, archive, searchLog, enumVars>>

\* the user removes the first value of vocabulary field f
DropVocabValue(f) ==
    /\ lastOp = "normalize"
    /\ res.vocab[f] /= NoList
    /\ res.vocab[f] /= <<>>
    /\ res' = [res EXCEPT !.vocab[f] = Tail(@)]
    /\ lastOp' = "edit"
    /\ UNCHANGED <<relations, archive, searchLog, enumVars>>

\* the user adds tag g
AddTag(g) ==
    /\ lastOp = "normalize"
    /\ res.tags /= NoList
    /\ ~InList(g, res.tags)
    /\ res' = [res EXCEPT !.tags = Append(@, g)]
    /\ lastOp' = "edit"
    /\ UNCHANGED <<relations, archive, searchLog, enumVars>>

\* the user removes the first tag
DropTag ==
    /\ lastOp = "normalize"
    /\ res.tags /= NoList
    /\ res.tags /= <<>>
    /\ res' = [res EXCEPT !.tags = Tail(@)]
    /\ lastOp' = "edit"
    /\ UNCHANGED <<relations, archive, searchLog, enumVars>>

NextEntry ==
    \/ DropKeyword
    \/ DropVocabValue("subject")
    \/ AddTag(<<"t4">>)
    \/ DropTag
    \/ \E c \in Contexts : \E backend \in Backends(c, relations) : Normalize(c, backend)

SpecEntry == InitEntry /\ [][NextEntry]_vars

----------------------------------------------------------------------------
\* Schema vocabularies (schema_package.py) and the JSON-LD parser
\* (parsers/jsonld_parser.py).
\*
\* Vocabulary values are strings of word atoms: "How To" is the atoms "How",
\* WS, "To" and "HowTo" the atoms "How", "To", so that two spellings are the
\* same string exactly when they are the same atoms.
\*
\* A JSON value is a record: null, a string, or a list of strings and nulls.
\* The loaded object obj is a function from the keys it holds to JSON values.

INSTRUCTIONAL_METHODS ==
    { <<"Tutorial">>, <<"How", WS, "To">>, <<"Explanation">>, <<"Reference">>, Undefined }

EDUCATIONAL_LEVELS == { <<"Beginner">>, <<"Intermediate">>, <<"Advanced">>, Undefined }

LEARNING_RESOURCE_TYPES ==
    { <<"FAIRmat", WS, "Tutorial">>, <<"NOMAD", WS, "Documentation">>, <<"Git", WS, "Repo">>,
      <<"NOMAD", WS, "Examples">>, <<"Self", WS, "Learning">>, Undefined }

FORMATS ==
    { <<"Video", WS, "File">>, <<"Technical", WS, "Article">>,
      <<"Presentation", WS, "Document">>, <<"Software", WS, "Application">>,
      <<"Source", WS, "Code">>, Undefined }

LICENSES ==
    { <<"CC0">>, <<"CC", WS, "BY">>, <<"MIT", WS, "License">>,
      <<"Apache", WS, "License", WS, "2.0">>, <<"GNU", WS, "GPLv3">>, Undefined }

SUBJECTS ==
    { <<"General", WS, "NOMAD">>, <<"Publish">>, <<"Explore">>, <<"Analyze">>, <<"ELN">>,
      <<"API">>, <<"Oasis", WS, "Customization">>, <<"Oasis", WS, "Installation">>,
      <<"Oasis", WS, "Configuration">>, <<"NOMAD", WS, "Plugins">>,
      <<"Develop", WS, "NOMAD">>, <<"NeXus">>, <<"General", WS, "RDM">>,
      <<"Scientific", WS, "Use", WS, "Cases">>, <<"CAMELS">>, <<"NOMAD", WS, "CAMELS">>,
      <<"NOMAD", WS, "Encyclopedia">>, <<"AI">>, Undefined }

_ALLOWED_INSTR ==
    { <<"Tutorial">>, <<"How", "To">>, <<"Explanation">>, <<"Reference">>, Undefined }

_ALLOWED_LEVEL == { <<"Beginner">>, <<"Intermediate">>, <<"Advanced">>, Undefined }

_ALLOWED_LRT ==
    { <<"FAIRmat", "Tutorial">>, <<"NOMAD", "Documentation">>, <<"Git", "Repo">>,
      <<"NOMAD", "Examples">>, <<"Self", "Learning">>, Undefined }

_ALLOWED_FMT ==
    { <<"Video", WS, "File">>, <<"Technical", WS, "Article">>,
      <<"Presentation", WS, "Document">>, <<"Software", WS, "Application">>,
      <<"Source", WS, "Code">>, Undefined }

_ALLOWED_LIC ==
    { <<"CC0">>, <<"CC", WS, "BY">>, <<"MIT", WS, "License">>,
      <<"Apache", WS, "License", WS, "2.0">>, <<"GNU", WS, "GPLv3">>, Undefined }

_ALLOWED_SUBJ ==
    { <<"General", WS, "NOMAD">>, <<"Publish">>, <<"Explore">>, <<"Analyze">>, <<"ELN">>,
      <<"API">>, <<"Oasis", WS, "Customization">>, <<"Oasis", WS, "Installation">>,
      <<"Oasis", WS, "Configuration">>, <<"NOMAD", WS, "Plugins">>,
      <<"Develop", WS, "NOMAD">>, <<"Scientific", WS, "Use", WS, "Cases">>, <<"NeXus">>,
      <<"General", WS, "RDM">>, <<"CAMELS">>, <<"NOMAD", WS, "CAMELS">>,
      <<"NOMAD", WS, "Encyclopedia">>, <<"AI">>, Undefined }

\* the alias maps, each a set of <<key, value>> pairs
_MAP_LIC ==
    { << <<"https://creativecommons.org/publicdomain/zero/1.0/">>, <<"CC0">> >>,
      << <<"cc0">>, <<"CC0">> >>,
      << <<"https://creativecommons.org/licenses/by/4.0/">>, <<"CC", WS, "BY">> >>,
      << <<"cc", WS, "by">>, <<"CC", WS, "BY">> >>,
      << <<"mit">>, <<"MIT", WS, "License">> >>,
      << <<"mit", WS, "license">>, <<"MIT", WS, "License">> >>,
      << <<"apache", WS, "2.0">>, <<"Apache", WS, "License", WS, "2.0">> >>,
      << <<"apache", "-", "2.0">>, <<"Apache", WS, "License", WS, "2.0">> >>,
      << <<"gplv3">>, <<"GNU", WS, "GPLv3">> >>,
      << <<"gpl", "-", "3.0">>, <<"GNU", WS, "GPLv3">> >> }

_MAP_FMT ==
    { << <<"video">>, <<"Video", WS, "File">> >>,
      << <<"video", "file">>, <<"Video", WS, "File">> >>,
      << <<"schema:videoobject">>, <<"Video", WS, "File">> >>,
      << <<"article">>, <<"Technical", WS, "Article">> >>,
      << <<"technical", "article">>, <<"Technical", WS, "Article">> >>,
      << <<"presentation">>, <<"Presentation", WS, "Document">> >>,
      << <<"slides">>, <<"Presentation", WS, "Document">> >>,
      << <<"software", "application">>, <<"Software", WS, "Application">> >>,
      << <<"app">>, <<"Software", WS, "Application">> >>,
      << <<"source", "code">>, <<"Source", WS, "Code">> >>,
      << <<"code">>, <<"Source", WS, "Code">> >> }

_MAP_LRT ==
    { << <<"fairmat", "tutorial">>, <<"FAIRmat", "Tutorial">> >>,
      << <<"nomad", "documentation">>, <<"NOMAD", "Documentation">> >>,
      << <<"git", "repo">>, <<"Git", "Repo">> >>,
      << <<"nomad", "examples">>, <<"NOMAD", "Examples">> >> }

\* JSON values
JNull == [kind |-> "null", val |-> None]
JStr(s) == [kind |-> "str", val |-> s]
JList(xs) == [kind |-> "list", val |-> xs]

\* x or y
PyOr(x, y) == IF Truthy(x) THEN x ELSE y

\* str(v) of a string or of None
Str(v) == IF v = None THEN <<"None">> ELSE v

\* _as_list(x)
_as_list(x) ==
    IF x.kind = "null" THEN <<>>
    ELSE IF x.kind = "list" THEN x.val
    ELSE <<x.val>>

\* str.replace(a, "") for a one-character a
RemoveAtoms(s, a) == LET Kept(x) == x /= a IN SelectSeq(s, Kept)

\* dict.get(key, default) on a map of <<key, value>> pairs
DictGet(map, key, default) ==
    IF \E p \in map : p[1] = key
    THEN (CHOOSE p \in map : p[1] = key)[2]
    ELSE default

\* s.lower().replace(" ", "").replace("_", "")
AliasKey(s) == RemoveAtoms(RemoveAtoms(lower(s), WS), "_")

\* the branch of _map_enum for a value outside allowed: m is its alias or None
MapAlias(m, allowed, out) ==
    IF m /= None /\ m /= <<>> /\ m \in allowed THEN Append(out, m) ELSE out

\* the body of the loop of _map_enum for the stripped value s
MapEnumStep(s, allowed, aliases, out) ==
    IF s \in allowed THEN Append(out, s)
    ELSE MapAlias(DictGet(aliases, AliasKey(s), None), allowed, out)

\* the loop of _map_enum over the remaining values, out being the list so far
RECURSIVE MapEnumLoop(_, _, _, _)
MapEnumLoop(vals, allowed, aliases, out) ==
    IF vals = <<>> THEN out
    ELSE MapEnumLoop(Tail(vals), allowed, aliases,
                     MapEnumStep(strip(Str(Head(vals))), allowed, aliases, out))

\* out or None
OrNoList(out) == IF out = <<>> THEN NoList ELSE out

\* _map_enum(val_or_vals, allowed, aliases)
_map_enum(val_or_vals, allowed, aliases) ==
    IF val_or_vals.kind = "null" THEN NoList
    ELSE OrNoList(MapEnumLoop(_as_list(val_or_vals), allowed, aliases, <<>>))

\* get that takes the value of the last key that qualifies
GetLastKey(obj, keys, default) ==
    LET Qualifies(i) == keys[i] \in DOMAIN obj /\ obj[keys[i]] \notin {JNull, JStr(<<>>)}
    IN  IF \E i \in 1..Len(keys) : Qualifies(i)
        THEN obj[keys[CHOOSE i \in 1..Len(keys) :
                        Qualifies(i) /\ \A j \in (i + 1)..Len(keys) : ~Qualifies(j)]]
        ELSE default

\* get(*keys, default=default) of parse, on the loaded object obj
RECURSIVE get(_, _, _)
get(obj, keys, default) ==
    IF keys = <<>> THEN default
    ELSE IF Head(keys) \in DOMAIN obj /\ obj[Head(keys)] \notin {JNull, JStr(<<>>)}
         THEN obj[Head(keys)]
         ELSE get(obj, Tail(keys), default)

\* x.strip() if isinstance(x, str), of the JSON value x, as a Python value
StrippedIfStr(x) == IF x.kind = "str" THEN strip(x.val) ELSE x.val

\* the language of the entry, for the JSON value x that get returned
Language(x) ==
    IF x.kind = "null" \/ x.val = <<>> THEN <<"en">>
    ELSE PyOr(strip(Str(x.val)), <<"en">>)

\* [p.strip() for p in pieces if p.strip()]
RECURSIVE StrippedPieces(_)
StrippedPieces(pieces) ==
    IF pieces = <<>> THEN <<>>
    ELSE IF strip(Head(pieces)) = <<>> THEN StrippedPieces(Tail(pieces))
         ELSE <<strip(Head(pieces))>> \o StrippedPieces(Tail(pieces))

\* the keywords of the entry, for the JSON value kw that get returned
Keywords(kw) ==
    IF kw.kind = "str" THEN StrippedPieces(split(kw.val, ","))
    ELSE IF kw.kind = "list" THEN kw.val
    ELSE <<>>

\* the loop over the subjects: the stripped values that are in _ALLOWED_SUBJ
RECURSIVE AllowedSubjects(_)
AllowedSubjects(vals) ==
    IF vals = <<>> THEN <<>>
    ELSE IF strip(Str(Head(vals))) \in _ALLOWED_SUBJ
         THEN <<strip(Str(Head(vals)))>> \o AllowedSubjects(Tail(vals))
         ELSE AllowedSubjects(Tail(vals))

\* xs[0] if xs else None
FirstOrNone(xs) == IF xs = NoList \/ xs = <<>> THEN None ELSE xs[1]

\* the license as a scalar: the first element of a list, None of an empty one
LicenseScalar(lic) == IF lic.kind = "list" THEN FirstOrNone(lic.val) ELSE lic.val

\* _MAP_LIC.get(lic.lower().strip(), lic) if lic is a str
MappedLicense(lic) == IF lic = None THEN None ELSE DictGet(_MAP_LIC, strip(lower(lic)), lic)

\* lic if lic in _ALLOWED_LIC else None
AllowedLicense(lic) == IF lic \in _ALLOWED_LIC THEN lic ELSE None

\* title or tr.identifier or "Training resource", title being (tr.title or "").strip()
FriendlyName(title, identifier) ==
    PyOr(PyOr(IF title = None THEN <<>> ELSE strip(title), identifier),
         <<"Training", WS, "resource">>)

\* the entry with the name the parser gives it: tr.name = tr.identifier or tr.title
WithName(tr) == [tr EXCEPT !.name = PyOr(tr.identifier, tr.title)]

\* TrainingJSONLDParser.parse from the field mapping on: the attributes the
\* parser assigns to the new entry tr, for the loaded object obj
ParsedEntry(obj) ==
    WithName(
    [ identifier  |-> get(obj, <<"@id", "schema:identifier", "identifier">>, JNull).val,
      title       |-> StrippedIfStr(get(obj, <<"schema:name", "dct:title", "title">>, JNull)),
      description |-> StrippedIfStr(get(obj, <<"schema:description", "dct:description",
                                               "description">>, JNull)),
      language    |-> Language(get(obj, <<"schema:inLanguage", "language">>, JStr(<<"en">>))),
      date_created  |-> get(obj, <<"schema:dateCreated", "dateCreated">>, JNull).val,
      date_modified |-> get(obj, <<"schema:dateModified", "dateModified">>, JNull).val,
      keywords    |-> Keywords(get(obj, <<"schema:keywords", "keywords">>, JList(<<>>))),
      subject     |-> OrNoList(AllowedSubjects(_as_list(
                          get(obj, <<"dct:subject", "subject">>, JNull)))),
      name        |-> None,
      instructional_method |->
          _map_enum(get(obj, <<"dct:instructionalMethod", "instructionalMethod">>, JNull),
                    _ALLOWED_INSTR, {}),
      educational_level |->
          _map_enum(get(obj, <<"schema:educationalLevel", "educationalLevel">>, JNull),
                    _ALLOWED_LEVEL, {}),
      learning_resource_type |->
          FirstOrNone(_map_enum(get(obj, <<"schema:learningResourceType",
                                           "learningResourceType">>, JNull),
                                _ALLOWED_LRT, _MAP_LRT)),
      format |->
          FirstOrNone(_map_enum(get(obj, <<"schema:encodingFormat", "format">>, JNull),
                                _ALLOWED_FMT, _MAP_FMT)),
      license |->
          AllowedLicense(MappedLicense(LicenseScalar(
              get(obj, <<"schema:license", "license">>, JNull)))) ])

----------------------------------------------------------------------------
\* SpecParse: the parser applied to loaded objects that spell one target
\* field under its alternative keys.

\* what a key of the object can hold, the text being the key's own name
Shapes == {"null", "empty", "blank", "text", "padded"}

ShapeValue(k, shape) ==
    IF shape = "null" THEN JNull
    ELSE IF shape = "empty" THEN JStr(<<>>)
    ELSE IF shape = "blank" THEN JStr(<<WS>>)
    ELSE IF shape = "text" THEN JStr(<<k>>)
    ELSE JStr(<<WS, k, WS>>)

\* the objects that hold some of keys, each with a value of one of the shapes
ShapedObjects(keys) ==
    UNION { { [k \in present |-> ShapeValue(k, sh[k])] : sh \in [present -> Shapes] } :
            present \in SUBSET keys }

\* the alternative keys of the text and date fields, and of title with identifier
TextKeyGroups ==
    { {"@id", "schema:identifier", "identifier"},
      {"schema:name", "dct:title", "title"},
      {"schema:description", "dct:description", "description"},
      {"schema:inLanguage", "language"},
      {"schema:dateCreated", "dateCreated"},
      {"schema:dateModified", "dateModified"},
      {"identifier", "title"} }

\* the keys of the vocabulary fields, in the order parse asks for them
EnumKeys ==
    [ instructional_method   |-> <<"dct:instructionalMethod", "instructionalMethod">>,
      educational_level      |-> <<"schema:educationalLevel", "educationalLevel">>,
      learning_resource_type |-> <<"schema:learningResourceType", "learningResourceType">>,
      format                 |-> <<"schema:encodingFormat", "format">>,
      license                |-> <<"schema:license", "license">>,
      subject                |-> <<"dct:subject", "subject">> ]

\* the set a vocabulary field's values are tested against, and its alias map
ParserAllowed ==
    [ instructional_method   |-> _ALLOWED_INSTR,
      educational_level      |-> _ALLOWED_LEVEL,
      learning_resource_type |-> _ALLOWED_LRT,
      format                 |-> _ALLOWED_FMT,
      license                |-> _ALLOWED_LIC,
      subject                |-> _ALLOWED_SUBJ ]

ParserAliases ==
    [ instructional_method   |-> {},
      educational_level      |-> {},
      learning_resource_type |-> _MAP_LRT,
      format                 |-> _MAP_FMT,
      license                |-> _MAP_LIC,
      subject                |-> {} ]

\* the schema's vocabulary of a field: MEnum(...) of its Quantity
SchemaVocabulary ==
    [ instructional_method   |-> INSTRUCTIONAL_METHODS,
      educational_level      |-> EDUCATIONAL_LEVELS,
      learning_resource_type |-> LEARNING_RESOURCE_TYPES,
      format                 |-> FORMATS,
      license                |-> LICENSES,
      subject                |-> SUBJECTS ]

\* other spellings a file can carry: capitals, underscores, padding, junk
OtherSpellings ==
    { <<"Video", "_", "File">>, <<"schema:VideoObject">>, <<"Slides">>, <<"MIT">>,
      <<WS, "Apache", "-", "2.0", WS>>, <<WS, "Tutorial", WS>>, <<"tutorial">>,
      <<"Git", "_", "Repo">>, <<"junk">> }

\* the strings a file can carry for vocabulary field f
RawSpellings(f) ==
    ParserAllowed[f] \cup SchemaVocabulary[f]
    \cup { p[1] : p \in ParserAliases[f] } \cup OtherSpellings

\* the JSON values a file can carry for vocabulary field f
RawEnumValues(f) ==
    { JStr(s) : s \in RawSpellings(f) }
    \cup { JList(<<>>) }
    \cup { JList(<<s, u>>) : s \in RawSpellings(f), u \in { None, <<"junk">>, Undefined } }

\* the objects that carry v for field f: under the first key, under the
\* second, under the second behind a null or beside another value
EnumObjects(f) ==
    UNION { { [k \in {EnumKeys[f][1]} |-> v],
              [k \in {EnumKeys[f][2]} |-> v],
              [k \in {EnumKeys[f][1], EnumKeys[f][2]} |->
                  IF k = EnumKeys[f][1] THEN JNull ELSE v],
              [k \in {EnumKeys[f][1], EnumKeys[f][2]} |->
                  IF k = EnumKeys[f][1] THEN v ELSE JStr(<<"junk">>)] } :
            v \in RawEnumValues(f) }

\* the objects with keywords, as one comma-separated string or as a list
KeywordObjects ==
    { [k \in {"schema:keywords"} |-> v] :
        v \in { JStr(<<"k1", ",", WS, "k2", ",", WS, ",", "k3">>),
                JList(<< <<"k1">>, <<WS, "k2">> >>), JNull, JStr(<<>>) } }
    \cup { [k \in {"keywords"} |-> JStr(<<"k1">>)] }

ParserObjects ==
    UNION { ShapedObjects(g) : g \in TextKeyGroups }
    \cup UNION { EnumObjects(f) : f \in Fields }
    \cup KeywordObjects

InitParse ==
    /\ res = NewEntry
    /\ relations = <<>>
    /\ \E m \in BOOLEAN :
          archive = [ m_context    |-> "server",
                      has_metadata |-> m,
                      entry_name   |-> None,
                      user_id      |-> IF m THEN <<"user1">> ELSE None,
                      data_is_self |-> TRUE,
                      has_results  |-> FALSE,
                      has_eln      |-> FALSE,
                      eln_tags     |-> NoList ]
    /\ searchLog = <<>>
    /\ lastOp = "init"
    /\ values \in ParserObjects
    /\ result = NoList
    /\ applied = "none"

\* the archive after parse: the friendly entry name is written into the
\* metadata, and skipped when the archive has none
Named(arch, tr) ==
    IF arch.has_metadata
    THEN [arch EXCEPT !.entry_name = FriendlyName(tr.title, tr.identifier)]
    ELSE arch

\* TrainingJSONLDParser.parse on the loaded object
Parse ==
    /\ applied = "none"
    /\ applied' = "parse"
    /\ result' = ParsedEntry(values)
    /\ archive' = Named(archive, ParsedEntry(values))
    /\ UNCHANGED <<values, res, relations, searchLog, lastOp>>

NextParse == Parse

SpecParse == InitParse /\ [][NextParse]_vars

----------------------------------------------------------------------------
\* Properties of the passes.

\* the text m contains the text t
Contains(m, t) ==
    \E i \in 1..(Len(m) - Len(t) + 1) : SubSeq(m, i, i + Len(t) - 1) = t

\* the search store as the logged calls of a pass observed it
BackendOf(log) ==
    [ q \in { log[k].query : k \in 1..Len(log) } |->
        log[CHOOSE k \in 1..Len(log) : log[k].query = q].response ]

\* a relation without a target and with a non-empty identifier
Resolvable(rel) ==
    /\ rel.target_resource = None
    /\ rel.target_identifier /= None
    /\ strip(rel.target_identifier) /= <<>>

\* the answer resp reports exactly one match that carries both ids
OneMatch(resp) ==
    /\ resp.raises = None
    /\ resp.total = 1
    /\ Len(resp.data) = 1
    /\ resp.data[1].entry_id /= Missing
    /\ resp.data[1].upload_id /= Missing

\* C1: with the context and the search store held fixed, a second pass right
\* after a pass leaves the entry and every relation (status, message and
\* target) exactly as the first pass left them.
C1_Idempotent ==
    lastOp = "normalize" =>
        /\ TrainingResourceNormalize(res, relations, archive, BackendOf(searchLog)).res = res
        /\ TrainingResourceNormalize(res, relations, archive, BackendOf(searchLog)).relations
               = relations

\* C2, as stated: after a pass, every relation whose target_resource is set
\* has the status manual_reference.
C2_TargetSetIsManual ==
    lastOp = "normalize" =>
        \A i \in 1..Len(relations) :
            relations[i].target_resource /= None
                => relations[i].resolution_status = "manual_reference"

\* C2, amended: a pass leaves every relation whose target_resource is set with
\* the status manual_reference when the target was set before the pass, and
\* with the status resolved_from_identifier when the pass itself set the
\* target from the single match of its lookup.
C2_TargetSetIsManualOrJustResolved ==
    [][ lastOp' = "normalize" =>
          \A i \in 1..Len(relations') :
              relations'[i].target_resource /= None =>
                  IF relations[i].target_resource /= None
                  THEN /\ relations'[i].resolution_status = "manual_reference"
                       /\ relations'[i].target_resource = relations[i].target_resource
                  ELSE /\ relations'[i].resolution_status = "resolved_from_identifier"
                       /\ \E k \in 1..Len(searchLog') :
                             /\ searchLog'[k].query = TargetId(relations[i])
                             /\ OneMatch(searchLog'[k].response)
                             /\ relations'[i].target_resource =
                                    <<"../uploads/">> \o searchLog'[k].response.data[1].upload_id
                                    \o <<"/archive/">> \o searchLog'[k].response.data[1].entry_id
                                    \o <<"#/data">>
      ]_vars

\* a pass has left one relation picked by hand and one resolved by lookup
C2_Witness ==
    /\ lastOp = "normalize"
    /\ \E i, j \in 1..Len(relations) :
          /\ relations[i].target_resource = ManualRef
          /\ relations[i].resolution_status = "manual_reference"
          /\ relations[j].target_resource /= None
          /\ relations[j].resolution_status = "resolved_from_identifier"

\* C3: a relation without a target and with a non-empty identifier, resolved
\* in a server context by a lookup that reports exactly one match with entry
\* id E and upload id U, gets the target "../uploads/U/archive/E#/data", the
\* status resolved_from_identifier and a message that contains E.
C3_ResolutionSuccess ==
    [][ ( /\ lastOp' = "normalize"
          /\ Resolvable(relations[1])
          /\ archive'.m_context = "server"
          /\ Len(searchLog') = 1
          /\ OneMatch(searchLog'[1].response) )
        =>
        ( /\ relations'[1].target_resource =
                 <<"../uploads/">> \o searchLog'[1].response.data[1].upload_id
                 \o <<"/archive/">> \o searchLog'[1].response.data[1].entry_id
                 \o <<"#/data">>
          /\ relations'[1].resolution_status = "resolved_from_identifier"
          /\ Contains(relations'[1].resolution_message,
                      searchLog'[1].response.data[1].entry_id) )
      ]_vars

\* a lookup with one match has resolved the relation
C3_Witness ==
    /\ lastOp = "normalize"
    /\ Len(searchLog) = 1
    /\ OneMatch(searchLog[1].response)
    /\ relations[1].target_resource =
           <<"../uploads/", "upload1", "/archive/", "entry1", "#/data">>
    /\ relations[1].resolution_status = "resolved_from_identifier"

\* C4: a relation without a target and with a non-empty identifier, resolved
\* in a server context by a lookup that reports zero matches, gets the status
\* identifier_not_found and keeps its target unset.
C4_ResolutionNotFound ==
    [][ ( /\ lastOp' = "normalize"
          /\ Resolvable(relations[1])
          /\ archive'.m_context = "server"
          /\ Len(searchLog') = 1
          /\ searchLog'[1].response.raises = None
          /\ searchLog'[1].response.total = 0 )
        =>
        ( /\ relations'[1].resolution_status = "identifier_not_found"
          /\ relations'[1].target_resource = None )
      ]_vars

\* a lookup without a match has left the relation unresolved
C4_Witness ==
    /\ lastOp = "normalize"
    /\ Len(searchLog) = 1
    /\ searchLog[1].response.raises = None
    /\ searchLog[1].response.total = 0
    /\ relations[1].resolution_status = "identifier_not_found"
    /\ relations[1].target_resource = None

\* the positions of the line breaks of the text b, and its end
LineEnds(b) == { i \in 1..Len(b) : b[i] = "\n" } \cup { Len(b) + 1 }

\* the position that ends line k of the text b
LineEnd(b, k) ==
    CHOOSE i \in LineEnds(b) : Cardinality({ j \in LineEnds(b) : j < i }) = k - 1

\* the lines of the text b, none for the empty text
LinesOf(b) ==
    [ k \in 1..(IF b = <<>> THEN 0 ELSE Cardinality(LineEnds(b))) |->
        SubSeq(b, IF k = 1 THEN 1 ELSE LineEnd(b, k - 1) + 1, LineEnd(b, k) - 1) ]

\* the candidate lines of an ambiguous message: its lines after the heading
ListedCandidates(m) == LinesOf(SubSeq(m, FirstStop(m, {":\n"}, 1) + 1, Len(m)))

\* C5: a relation without a target and with a non-empty identifier, resolved
\* in a server context by a lookup that reports more than one match, gets the
\* status identifier_ambiguous, keeps its target unset, and its message holds
\* one line per returned candidate, the line showing the candidate's entry id.
C5_ResolutionAmbiguous ==
    [][ ( /\ lastOp' = "normalize"
          /\ Resolvable(relations[1])
          /\ archive'.m_context = "server"
          /\ Len(searchLog') = 1
          /\ searchLog'[1].response.raises = None
          /\ searchLog'[1].response.total > 1 )
        =>
        ( /\ relations'[1].resolution_status = "identifier_ambiguous"
          /\ relations'[1].target_resource = None
          /\ Len(ListedCandidates(relations'[1].resolution_message))
                 = Len(searchLog'[1].response.data)
          /\ \A k \in 1..Len(searchLog'[1].response.data) :
                 searchLog'[1].response.data[k].entry_id /= Missing =>
                     Contains(ListedCandidates(relations'[1].resolution_message)[k],
                              searchLog'[1].response.data[k].entry_id) )
      ]_vars

\* a lookup with two matches has left the relation ambiguous, both listed
C5_Witness ==
    /\ lastOp = "normalize"
    /\ Len(searchLog) = 1
    /\ searchLog[1].response.total = 2
    /\ Len(searchLog[1].response.data) = 2
    /\ relations[1].resolution_status = "identifier_ambiguous"
    /\ Len(ListedCandidates(relations[1].resolution_message)) = 2

\* the lookup-and-classify step of the last pass failed: the archive has no
\* metadata to take the user from, search() raised, or the one match reported
\* is not on the page or lacks an id
LookupFailed ==
    \/ ~archive.has_metadata
    \/ /\ Len(searchLog) = 1
       /\ \/ searchLog[1].response.raises /= None
          \/ /\ searchLog[1].response.total = 1
             /\ ~OneMatch(searchLog[1].response)

\* C6: when the lookup call raises, or anything else in the lookup-and-classify
\* step fails, the pass over the relation still completes: it sets the status
\* error, puts the failure detail into the message and keeps the target unset.
C6_LookupFailureContained ==
    [][ ( /\ lastOp' = "normalize"
          /\ Resolvable(relations[1])
          /\ archive'.m_context = "server"
          /\ LookupFailed' )
        =>
        ( /\ relations'[1].resolution_status = "error"
          /\ relations'[1].target_resource = None
          /\ Len(relations'[1].resolution_message) > 1
          /\ relations'[1].resolution_message[1] = "Resolution failed: "
          /\ (Len(searchLog') = 1 /\ searchLog'[1].response.raises /= None) =>
                 Contains(relations'[1].resolution_message, searchLog'[1].response.raises) )
      ]_vars

\* search() has raised and the relation carries the error
C6_Witness ==
    /\ lastOp = "normalize"
    /\ Len(searchLog) = 1
    /\ searchLog[1].response.raises = <<"backend down">>
    /\ relations[1].resolution_status = "error"
    /\ relations[1].resolution_message = <<"Resolution failed: ", "backend down">>
    /\ relations[1].target_resource = None

\* relation j after a pass over an entry that holds no other relation, in the
\* context and against the search store of the step
AloneOutcome(j) ==
    TrainingResourceNormalize(res, <<relations[j]>>,
                              [archive EXCEPT !.m_context = archive'.m_context],
                              BackendOf(searchLog')).relations[1]

\* C7: a pass processes every relation of the entry; each relation ends as it
\* would if it were the only relation, whatever failed while resolving the
\* others, and the summary message after the relation loop is still written.
C7_SiblingIsolation ==
    [][ lastOp' = "normalize" =>
          /\ Len(relations') = Len(relations)
          /\ \A j \in 1..Len(relations) :
                /\ relations'[j].resolution_status /= NoStatus
                /\ relations'[j] = AloneOutcome(j)
          /\ res'.message = <<"Indexed ", ToString(Len(res'.terms["keyword"])), " keywords.">>
      ]_vars

\* a pass has failed on the first relation and resolved the second
C7_Witness ==
    /\ lastOp = "normalize"
    /\ Len(relations) = 2
    /\ relations[1].resolution_status = "error"
    /\ relations[2].resolution_status = "resolved_from_identifier"
    /\ res.message /= None

\* C8: under the full-defaulting policy a vocabulary field is, after
\* normalization, either exactly ["Undefined"] or a non-empty list without
\* "Undefined".
C8_SentinelExclusive ==
    applied = "full" =>
        \/ result = <<Undefined>>
        \/ result /= <<>> /\ ~InList(Undefined, result)

\* the sentinel came in beside a concrete value and was dropped
C8_Witness ==
    /\ applied = "full"
    /\ InList(Undefined, values)
    /\ InList(<<"A">>, values)
    /\ result = << <<"A">> >>

\* the canonical spelling of a cleaned value when "undefined" in any letter
\* casing stands for the sentinel
FoldUndefined(w) == IF w \in { <<"undefined">>, <<"UNDEFINED">> } THEN Undefined ELSE w

\* the values cleaned, folded and de-duplicated in first-seen order
RECURSIVE FoldedCleanLoop(_, _)
FoldedCleanLoop(vals, out) ==
    IF vals = <<>> THEN out
    ELSE IF Head(vals) = None \/ strip(Head(vals)) = <<>>
              \/ InList(FoldUndefined(strip(Head(vals))), out)
         THEN FoldedCleanLoop(Tail(vals), out)
         ELSE FoldedCleanLoop(Tail(vals), Append(out, FoldUndefined(strip(Head(vals)))))

\* the list a canonicalizer that folds "undefined" returns under full defaulting
FoldedEnumList(cleaned) ==
    IF cleaned = <<>> THEN <<Undefined>>
    ELSE IF InList(Undefined, cleaned) /\ Len(cleaned) > 1 THEN Without(cleaned, Undefined)
    ELSE cleaned

\* C9: the canonicalizer drops None and blank entries, strips whitespace,
\* turns "undefined" in any letter casing into "Undefined", removes duplicates
\* in first-seen order and drops the sentinel beside a concrete value; the
\* list ["B","A","B","undefined","A"] yields ["B","A"].
C9_Canonicalization ==
    applied = "full" =>
        result = FoldedEnumList(FoldedCleanLoop(IF values = NoList THEN <<>> ELSE values, <<>>))

\* the raw list is None, empty, or holds only None and blank entries
AllBlank(vals) ==
    \/ vals = NoList
    \/ \A i \in 1..Len(vals) :
          \/ vals[i] = None
          \/ \A k \in 1..Len(vals[i]) : vals[i][k] = WS

\* C10: an input that is empty after cleaning yields ["Undefined"] under the
\* full-defaulting policy and [] under the light-defaulting policy.
C10_EmptyInputDefaulting ==
    AllBlank(values) =>
        /\ applied = "full" => result = <<Undefined>>
        /\ applied = "client" => result = <<>>

\* a list of a None and a blank entry went through the light policy
C10_Witness ==
    /\ applied = "client"
    /\ values = <<None, <<WS>>>>
    /\ result = <<>>

\* https://www.youtube.com/watch?v=x
WatchUrl(x) == <<"https://", "www.", "youtube.com", "/", "watch", "?", "v", "=", x>>

\* C11: every recognized spelling of the video with the valid id X -- scheme
\* present or omitted, www/m/music host prefix, youtu.be short link, watch?v=,
\* /shorts/, /embed/, /live/, /v/ -- canonicalizes to
\* https://www.youtube.com/watch?v=X, and a canonical form to itself.
C11_VideoUrlCanonical ==
    /\ applied = "identifier" =>
          \A x \in ValidVideoIds : values \in VideoSpellings(x) => result = WatchUrl(x)
    /\ applied = "again" => result = values

\* the short link without a scheme has become the canonical watch URL
C11_Witness ==
    /\ applied = "identifier"
    /\ values = <<"youtu.be", "/", "dQw4w9WgXcQ">>
    /\ result = WatchUrl("dQw4w9WgXcQ")

\* C12: canonicalize_identifier returns None for None, an empty or
\* whitespace-only string as itself, and every string that is no URL of the
\* video-hosting family, or is one without a valid video or playlist id,
\* exactly as it was given.
C12_PassThrough ==
    applied = "identifier" =>
        /\ values = None => result = None
        /\ values \in { <<>>, <<WS>>, <<WS, WS>> } => result = values
        /\ values \in OtherUrls \cup UnresolvedFamilyUrls => result = values

\* the status the lookup answer resp calls for
StatusFor(resp) ==
    IF resp.raises /= None THEN "error"
    ELSE IF resp.total = 0 \/ resp.total = NoTotal THEN "identifier_not_found"
    ELSE IF resp.total > 1 THEN "identifier_ambiguous"
    ELSE IF OneMatch(resp) THEN "resolved_from_identifier"
    ELSE "error"

\* C16: a pass gives the relation exactly one of the seven statuses, by the
\* first condition that holds: target set -> manual_reference; identifier
\* absent or blank -> identifier_missing (in a client context too); client
\* context -> skipped_client_context; else what the lookup result calls for.
\* search() is called in the last case only.
C16_DecisionOrder ==
    [][ lastOp' = "normalize" =>
          /\ \E k \in 1..Len(RELATION_STATUS) :
                relations'[1].resolution_status = RELATION_STATUS[k]
          /\ IF relations[1].target_resource /= None
             THEN /\ relations'[1].resolution_status = "manual_reference"
                  /\ searchLog' = <<>>
             ELSE IF ~Resolvable(relations[1])
             THEN /\ relations'[1].resolution_status = "identifier_missing"
                  /\ searchLog' = <<>>
             ELSE IF archive'.m_context = "client"
             THEN /\ relations'[1].resolution_status = "skipped_client_context"
                  /\ searchLog' = <<>>
             ELSE /\ Len(searchLog') <= 1
                  /\ Len(searchLog') = 1 =>
                        relations'[1].resolution_status = StatusFor(searchLog'[1].response)
                  /\ Len(searchLog') = 0 => relations'[1].resolution_status = "error"
      ]_vars

\* a client pass over a relation without identifier: missing, not skipped
C16_Witness ==
    /\ lastOp = "normalize"
    /\ archive.m_context = "client"
    /\ relations[1].target_resource = None
    /\ relations[1].target_identifier = <<WS>>
    /\ relations[1].resolution_status = "identifier_missing"
    /\ searchLog = <<>>

\* the statuses that leave a relation open for a later resolution
OpenStatuses ==
    { "identifier_not_found", "identifier_ambiguous", "error", "skipped_client_context" }

\* C17, as stated: for a relation without a target and with a non-empty
\* identifier, every pass in a server context performs exactly one lookup and
\* writes the status that lookup's result calls for, whatever status an
\* earlier pass left; a relation left not found, ambiguous, in error or
\* skipped is resolved by the next server pass that finds exactly one match.
C17_EveryServerPassLooksUp ==
    [][ ( /\ lastOp' = "normalize"
          /\ Resolvable(relations[1])
          /\ archive'.m_context = "server" )
        =>
        ( /\ Len(searchLog') = 1
          /\ relations'[1].resolution_status = StatusFor(searchLog'[1].response) )
      ]_vars

\* C17, amended: the same for every pass in a server context whose archive
\* carries the metadata the lookup takes the acting user from.
C17_ServerPassWithMetadataLooksUp ==
    [][ ( /\ lastOp' = "normalize"
          /\ Resolvable(relations[1])
          /\ archive'.m_context = "server"
          /\ archive.has_metadata )
        =>
        ( /\ Len(searchLog') = 1
          /\ relations'[1].resolution_status = StatusFor(searchLog'[1].response)
          /\ ( relations[1].resolution_status \in OpenStatuses
               /\ OneMatch(searchLog'[1].response) )
                 => relations'[1].resolution_status = "resolved_from_identifier" )
      ]_vars

\* a server pass has looked up the canonical form of a short link and resolved it
C17_Witness ==
    /\ lastOp = "normalize"
    /\ archive.m_context = "server"
    /\ archive.has_metadata
    /\ Len(searchLog) = 1
    /\ searchLog[1].query = WatchUrl(VideoId)
    /\ relations[1].resolution_status = "resolved_from_identifier"

\* the name the message shows for a hit
ShownName(hit) ==
    IF hit.entry_name /= Missing THEN hit.entry_name
    ELSE IF hit.metadata_entry_name /= Missing THEN hit.metadata_entry_name
    ELSE <<"<no entry_name>">>

CanonicalField(r, f) == IF f = "keyword" THEN r.keyword ELSE r.vocab[f]

\* the values of the records of a mirror list, in order
MirrorValues(terms) == [i \in 1..Len(terms) |-> terms[i].value]

\* the list holds no value twice
NoDuplicates(xs) == \A i, j \in 1..Len(xs) : xs[i] = xs[j] => i = j

\* C13: at the end of a pass each mirror list -- of the six vocabulary fields
\* and of keyword -- holds one record per distinct cleaned value of its
\* canonical field, in the same order, whatever it held before the pass; the
\* keyword mirror has as many records as there are distinct cleaned keywords.
C13_MirrorsRebuilt ==
    lastOp = "normalize" =>
        /\ \A f \in MirrorFields :
              /\ MirrorValues(res.terms[f]) = CanonicalField(res, f)
              /\ NoDuplicates(CanonicalField(res, f))
        /\ Len(res.terms["keyword"]) = Len(res.keyword)

\* a pass after the first of two keywords was removed: one record is left
C13_Witness ==
    /\ lastOp = "normalize"
    /\ res.keyword = << <<"k2">> >>
    /\ res.terms["keyword"] = << [value |-> <<"k2">>] >>
    /\ res.terms["subject"] = << [value |-> <<"A">>] >>

\* s with every underscore replaced by a space
Spaced(s) == [i \in 1..Len(s) |-> IF s[i] = "_" THEN WS ELSE s[i]]

\* s without its last "."-separated segment, s itself when it has one segment
WithoutTrailingSegment(s) ==
    IF \E i \in 1..Len(s) : s[i] = "."
    THEN SubSeq(s, 1, (CHOOSE i \in 1..Len(s) :
                          s[i] = "." /\ \A j \in (i + 1)..Len(s) : s[j] /= ".") - 1)
    ELSE s

\* the part of s before its first "."
BeforeFirstDot(s) == SubSeq(s, 1, FirstStop(s, {"."}, 1) - 1)

\* C14, as stated: a pass keeps a display name that is set and copies it to
\* the host's metadata name; an entry without display name gets the host's
\* metadata name with its trailing suffix segment removed and underscores
\* replaced by spaces.
C14_NameFromHostWithoutSuffix ==
    [][ ( lastOp' = "normalize" /\ archive.has_metadata /\ archive.data_is_self ) =>
          /\ Truthy(res.entry_name) =>
                res'.entry_name = res.entry_name /\ archive'.entry_name = res.entry_name
          /\ (res.entry_name = None /\ Truthy(archive.entry_name)) =>
                res'.entry_name = Spaced(WithoutTrailingSegment(archive.entry_name))
      ]_vars

\* C14, amended: a pass keeps a display name that is set and copies it to the
\* host's metadata name; an entry without display name gets the part of the
\* host's metadata name before its first ".", underscores replaced by spaces.
C14_NameFromHostBeforeFirstDot ==
    [][ lastOp' = "normalize" =>
          /\ Truthy(res.entry_name) => res'.entry_name = res.entry_name
          /\ (archive.has_metadata /\ archive.data_is_self) =>
                /\ Truthy(res.entry_name) => archive'.entry_name = res.entry_name
                /\ (res.entry_name = None /\ Truthy(archive.entry_name)) =>
                      /\ res'.entry_name = Spaced(BeforeFirstDot(archive.entry_name))
                      /\ archive'.entry_name = archive.entry_name
      ]_vars

\* the host name my_file.archive.json has become the display name "my file"
C14_Witness ==
    /\ lastOp = "normalize"
    /\ archive.entry_name = <<"my", "_", "file", ".", "archive", ".", "json">>
    /\ res.entry_name = <<"my", WS, "file">>

\* C15: the lookup of a relation filters on canonicalize_identifier of its
\* target_identifier, with scope "visible" and the main author's user id; the
\* identifier an entry stores after a pass is canonicalize_identifier of its
\* raw identifier; so a relation and an entry whose raw identifiers have the
\* same canonical form look up and store the same string.
C15_LookupKeyAgreement ==
    [][ lastOp' = "normalize" =>
          /\ res'.identifier = _canonicalize_identifier(res.identifier)
          /\ \A k \in 1..Len(searchLog') :
                /\ searchLog'[k].owner = "visible"
                /\ searchLog'[k].user_id = archive.user_id
                /\ \E i \in 1..Len(relations) :
                      searchLog'[k].query = _canonicalize_identifier(relations[i].target_identifier)
          /\ \A i \in 1..Len(relations) :
                ( /\ Resolvable(relations[i])
                  /\ archive'.m_context = "server"
                  /\ archive.has_metadata )
                => /\ Len(searchLog') = Len(relations)
                   /\ searchLog'[i].query = _canonicalize_identifier(relations[i].target_identifier)
                   /\ _canonicalize_identifier(relations[i].target_identifier)
                          = _canonicalize_identifier(res.identifier)
                        => searchLog'[i].query = res'.identifier
      ]_vars

\* an entry saved with the short link and a relation that names the mobile
\* /shorts/ spelling: the entry stores what the relation looks up
C15_Witness ==
    /\ lastOp = "normalize"
    /\ res.identifier = WatchUrl(VideoId)
    /\ relations[1].target_identifier = MobileShorts
    /\ Len(searchLog) = 1
    /\ searchLog[1].query = res.identifier

\* the text is a string with a character that is not whitespace
HasText(x) == x /= None /\ \E i \in 1..Len(x) : x[i] /= WS

\* the entry r with relations rels has content of one of the seven kinds
HasContent(r, rels) ==
    \/ HasText(r.identifier) \/ HasText(r.entry_name)
    \/ HasText(r.title) \/ HasText(r.description)
    \/ r.keyword /= <<>> \/ r.tags /= <<>> \/ rels /= <<>>

\* C18: a pass applies full defaulting to the six vocabulary fields exactly
\* when it runs in a server context and the entry -- its display name
\* synchronized, its identifier, keywords and tags cleaned -- has meaningful
\* content; otherwise light defaulting: an entry without content, and any
\* entry in a client context, ends the pass with an empty field where the
\* input was empty.
C18_DefaultingPolicy ==
    [][ lastOp' = "normalize" =>
          \A f \in Fields :
              IF archive'.m_context = "server" /\ HasContent(res', relations')
              THEN /\ res'.vocab[f] = _normalize_enum_list(res.vocab[f])
                   /\ AllBlank(res.vocab[f]) => res'.vocab[f] = <<Undefined>>
              ELSE /\ res'.vocab[f] = _normalize_enum_list_client(res.vocab[f])
                   /\ AllBlank(res.vocab[f]) => res'.vocab[f] = <<>>
      ]_vars

\* a server pass over an entry whose only content is a relation has filled
\* the empty fields with the sentinel
C18_Witness ==
    /\ lastOp = "normalize"
    /\ archive.m_context = "server"
    /\ relations /= <<>>
    /\ ~HasText(res.identifier) /\ ~HasText(res.entry_name)
    /\ ~HasText(res.title) /\ ~HasText(res.description)
    /\ res.keyword = <<>> /\ res.tags = <<>>
    /\ \A f \in Fields : res.vocab[f] = <<Undefined>>

\* the tags of xs that the list prev does not hold
NewTags(xs, prev) ==
    LET Unseen(g) == ~InList(g, prev) IN SelectSeq(xs, Unseen)

\* C19: after a pass on an entry with a non-empty cleaned tags list, the side
\* tag index is its previous cleaned content followed by the entry's tags it
\* did not hold, in the entry's order, without duplicates; the annotation
\* layer exists; every tag of the entry is in the index.
C19_TagMerge ==
    [][ ( lastOp' = "normalize" /\ res'.tags /= <<>> ) =>
          /\ archive'.has_results /\ archive'.has_eln
          /\ archive'.eln_tags =
                 _unique_clean(archive.eln_tags)
                 \o NewTags(res'.tags, _unique_clean(archive.eln_tags))
          /\ NoDuplicates(archive'.eln_tags)
          /\ \A i \in 1..Len(res'.tags) : InList(res'.tags[i], archive'.eln_tags)
      ]_vars

\* t2 was added behind the cleaned index t3, t1
C19_Witness ==
    /\ lastOp = "normalize"
    /\ res.tags = << <<"t2">>, <<"t1">> >>
    /\ archive.eln_tags = << <<"t3">>, <<"t1">>, <<"t2">> >>

\* C22: a pass leaves the target_resource of every relation that had one as it
\* was, whatever the relation's target_identifier names and whatever search()
\* would answer for it, and leaves target_identifier and relation_type of
\* every relation as they were.
C22_StickyTarget ==
    [][ lastOp' = "normalize" =>
          /\ Len(relations') = Len(relations)
          /\ \A i \in 1..Len(relations) :
                /\ relations'[i].target_identifier = relations[i].target_identifier
                /\ relations'[i].relation_type = relations[i].relation_type
                /\ relations[i].target_resource /= None
                      => relations'[i].target_resource = relations[i].target_resource
      ]_vars

\* a pass has kept the target an earlier lookup wrote, after the identifier
\* that lookup resolved was cleared
C22_Witness ==
    /\ lastOp = "normalize"
    /\ relations[1].relation_type = <<"isPartOf">>
    /\ relations[1].target_resource = ProxyValue(Hit1.upload_id, Hit1.entry_id)
    /\ relations[1].resolution_status = "manual_reference"
    /\ relations[1].target_identifier = None

\* the elements of the side tag index of archive arch
IndexElements(arch) ==
    IF arch.eln_tags = NoList THEN {}
    ELSE { arch.eln_tags[i] : i \in 1..Len(arch.eln_tags) }

\* the elements of the side tag index that cleaning leaves as they are: the
\* strings that are not blank and carry no surrounding whitespace
CleanIndexElements(arch) ==
    { x \in IndexElements(arch) : _unique_clean(<<x>>) = <<x>> }

\* a pass on an entry whose cleaned tags list is empty leaves the side index
\* and the results/annotation layer as they were
EmptyTagsLeaveIndexAlone ==
    ( lastOp' = "normalize" /\ res'.tags = <<>> ) =>
        /\ archive'.eln_tags = archive.eln_tags
        /\ archive'.has_results = archive.has_results
        /\ archive'.has_eln = archive.has_eln

\* C23, as stated: a pass never takes an element out of the side tag index,
\* and a pass on an entry whose cleaned tags list is empty neither modifies
\* the side index nor creates the results/annotation layer.
C23_SideIndexOnlyGrows ==
    [][ /\ lastOp' = "normalize" => IndexElements(archive) \subseteq IndexElements(archive')
        /\ EmptyTagsLeaveIndexAlone
      ]_vars

\* C23, amended: a pass never takes out of the side tag index an element that
\* is a cleaned tag (a string that is not blank and has no surrounding
\* whitespace), so a tag removed from the entry between two passes is still in
\* the side index after the second pass; and a pass on an entry whose cleaned
\* tags list is empty neither modifies the side index nor creates the
\* results/annotation layer.
C23_SideIndexKeepsCleanedTags ==
    [][ /\ lastOp' = "normalize" =>
              CleanIndexElements(archive) \subseteq IndexElements(archive')
        /\ EmptyTagsLeaveIndexAlone
      ]_vars

\* the entry's only tag was indexed by one pass and removed before the next,
\* which left it in the index
C23_Witness ==
    /\ lastOp = "normalize"
    /\ res.tags = <<>>
    /\ <<"t4">> \in IndexElements(archive)

\* the pass that ends in the primed state ran under the light-defaulting policy
LightDefaulting ==
    /\ lastOp' = "normalize"
    /\ ~(archive'.m_context = "server" /\ HasContent(res', relations'))

\* C24: a pass under the light-defaulting policy leaves no vocabulary field
\* and no mirror list with "Undefined" in it, whatever the field held; a field
\* that held only "Undefined" (as a server pass leaves an empty field of an
\* entry with content) is empty after the pass, and so is its mirror list.
C24_LightDefaultingHidesSentinel ==
    [][ LightDefaulting =>
          \A f \in Fields :
              /\ ~InList(Undefined, res'.vocab[f])
              /\ ~InList([value |-> Undefined], res'.terms[f])
              /\ res.vocab[f] = <<Undefined>> =>
                    /\ res'.vocab[f] = <<>>
                    /\ res'.terms[f] = <<>>
      ]_vars

\* a client pass has emptied the fields of an entry whose relation an earlier
\* server pass resolved, the pass that filled those fields with the sentinel
C24_Witness ==
    /\ lastOp = "normalize"
    /\ archive.m_context = "client"
    /\ Len(relations) = 1
    /\ relations[1].resolution_status = "manual_reference"
    /\ relations[1].target_resource /= None
    /\ \A f \in Fields : res.vocab[f] = <<>> /\ res.terms[f] = <<>>

\* the priority lists of the text and date fields
PriorityList ==
    [ identifier    |-> <<"@id", "schema:identifier", "identifier">>,
      title         |-> <<"schema:name", "dct:title", "title">>,
      description   |-> <<"schema:description", "dct:description", "description">>,
      language      |-> <<"schema:inLanguage", "language">>,
      date_created  |-> <<"schema:dateCreated", "dateCreated">>,
      date_modified |-> <<"schema:dateModified", "dateModified">> ]

\* key k is present in obj with a value other than null and the empty string
Qualifies(obj, k) ==
    /\ k \in DOMAIN obj
    /\ obj[k].kind /= "null"
    /\ ~(obj[k].kind = "str" /\ obj[k].val = <<>>)

\* the positions of keys whose key qualifies while no earlier key does
FirstQualifying(obj, keys) ==
    { i \in 1..Len(keys) :
        Qualifies(obj, keys[i]) /\ \A j \in 1..(i - 1) : ~Qualifies(obj, keys[j]) }

\* the value under the first qualifying key of keys, None when none qualifies
Taken(obj, keys) ==
    IF FirstQualifying(obj, keys) = {} THEN None
    ELSE obj[keys[CHOOSE i \in FirstQualifying(obj, keys) : TRUE]].val

\* obj without the keys of keys other than the first qualifying one
OnlyFirstQualifying(obj, keys) ==
    [ k \in { keys[i] : i \in FirstQualifying(obj, keys) } |-> obj[k] ]

\* C21: after parse, identifier and the two dates hold the value of the first
\* key of their priority list that is present with a value other than null and
\* the empty string, title and description hold that value stripped, language
\* holds it stripped or "en" when nothing is left; a field none of whose keys
\* qualifies is unset, language "en"; each vocabulary field is what parse makes
\* of the first qualifying key of its list alone.
C21_FieldPriority ==
    applied = "parse" =>
        /\ \A f \in {"identifier", "date_created", "date_modified"} :
              result[f] = Taken(values, PriorityList[f])
        /\ \A f \in {"title", "description"} :
              result[f] = IF Taken(values, PriorityList[f]) = None THEN None
                          ELSE strip(Taken(values, PriorityList[f]))
        /\ result.language =
              IF StripOrNone(Taken(values, PriorityList["language"])) = None THEN <<"en">>
              ELSE strip(Taken(values, PriorityList["language"]))
        /\ \A f \in Fields :
              result[f] = ParsedEntry(OnlyFirstQualifying(values, EnumKeys[f]))[f]

\* the identifier was taken from the third key, the first holding the empty
\* string and the second null; title is unset and language "en"
C21_Witness ==
    /\ applied = "parse"
    /\ DOMAIN values = {"@id", "schema:identifier", "identifier"}
    /\ values["@id"] = JStr(<<>>)
    /\ values["schema:identifier"] = JNull
    /\ values["identifier"] = JStr(<<"identifier">>)
    /\ result.identifier = <<"identifier">>
    /\ result.title = None
    /\ result.language = <<"en">>

\* the values parse left in vocabulary field f of the entry tr
AssignedValues(tr, f) ==
    IF f \in {"learning_resource_type", "format", "license"}
    THEN {tr[f]} \ {None}
    ELSE IF tr[f] = NoList THEN {}
         ELSE { tr[f][i] : i \in 1..Len(tr[f]) }

\* C25: every value parse leaves in instructional_method, educational_level,
\* learning_resource_type, format, license or subject is a member of the
\* schema's vocabulary of that field.
C25_ParserVocabularyInSchema ==
    applied = "parse" =>
        \A f \in Fields : AssignedValues(result, f) \subseteq SchemaVocabulary[f]

====
